---- MODULE Spec2Model ----
(***************************************************************************)
(* Smart Microservice Health Guardian: the anomaly evaluation engine       *)
(* (WindowStats, detectMetricAnomaly, evaluateService), the ingestion      *)
(* route POST /ingest/metrics, the periodic sweep runIntelligentEvaluation *)
(* with the restart route POST /services/actions/restart it calls, and    *)
(* the NotificationService.                                                *)
(*                                                                         *)
(* Numbers.  Samples are non-negative integers; NotNum stands for a value  *)
(* that is not a number (typeof value !== 'number' or NaN).  mean and      *)
(* stdDev are kept exactly as the integers they are computed from:         *)
(*   mean = sum / count,  stdDev = sqrt(count*sumSq - sum^2) / count,      *)
(* so that  c > mean + k*stdDev  is  (count*c - sum) > k*sqrt(D)  with     *)
(* D = count*sumSq - sum^2, decided by squaring.  Time is in seconds.      *)
(***************************************************************************)
EXTENDS Integers, Sequences, FiniteSets, TLC

VARIABLES
    config,                \* anomalyDetector.js `config` (loaded from the environment)
    serviceWindows,        \* metrics route: serviceWindows[serviceName]
    db,                    \* the Service collection (one document per service name)
    events,                \* the Event collection
    alerts,                \* the Alert collection
    lastNotificationTime,  \* NotificationService.lastNotificationTime, per notifier instance
    enabled,               \* the channels configured (telegramEnabled, emailEnabled, discordEnabled)
    now,                   \* Date.now(), in seconds
    isEvaluating,          \* intelligentEvaluator.js: the global lock
    sweep,                 \* runIntelligentEvaluation: the bodies in progress (the documents
                           \* each has read and not yet evaluated) and the calls made so far
    delivered,             \* every notification that reached at least one channel
    res,                   \* what the last handler call did (its result and its sendAlert calls)
    history,               \* per service, of its current windows: the numeric samples each
                           \* accepted and the breach flags of its latest evaluations
    traffic,               \* the environment: samples sent, clock steps and direct calls so
                           \* far, and the plan of the traffic generator
    timers,                \* restart route: the setTimeout callbacks not yet run
    inFlight               \* the handler calls suspended at an await

vars == <<config, serviceWindows, db, events, alerts, lastNotificationTime, enabled,
          now, isEvaluating, sweep, delivered, res, history, traffic, timers, inFlight>>

--------------------------------------------------------------------------
(* Bounds of the model *)

EvalWarmup == 14        \* ANOMALY_WARMUP_SAMPLES of the evaluation scenario (default 50)
SystemWarmup == 1       \* ANOMALY_WARMUP_SAMPLES of the system scenario
WindowSize == 16        \* capacity of the windows the route creates (60 in the source)
MaxBurst == 4           \* free samples the generator sends after its quiet run

(* Program constants *)

WarningSigmaX2 == 5     \* config.warningSigma = 2.5, doubled
CriticalSigmaX2 == 7    \* config.criticalSigma = 3.5, doubled
MinConsecutive == 3     \* config.minConsecutive
TrendThreshold == 25    \* config.trendThreshold
ErrorRateCeiling == 50  \* evaluateService: errorRate > 50
SlopeSamples == 10      \* getSlope: the last 10 samples
HeartbeatTimeout == 60  \* evaluateServiceHealth: timeSinceHeartbeat > 60000 ms
CriticalDelay == 30     \* runIntelligentEvaluation: duration > 30000 ms
AutoHealAfter == 120    \* checkAutoHealing: criticalDuration > 2 * 60 * 1000 ms
RateLimitSeconds == 900 \* rateLimitMinutes = 15

NotNum == -1            \* a value that is not a number
Undefined == -2         \* a field the request body does not have
NoTime == -1            \* a null Date

IsNumber(v) == v >= 0

Services == {"auth-service", "booking-service", "storage-service"}
Dependents == {"booking-service", "storage-service"}
Channels == {"telegram", "email", "discord"}
Instances == {"ingest", "sweep"}

--------------------------------------------------------------------------
(* WindowStats *)

RECURSIVE SumSeq(_)
SumSeq(s) == IF s = <<>> THEN 0 ELSE Head(s) + SumSeq(Tail(s))

RECURSIVE SumSqSeq(_)
SumSqSeq(s) == IF s = <<>> THEN 0 ELSE Head(s) * Head(s) + SumSqSeq(Tail(s))

MinSeq(s) == CHOOSE x \in {s[i] : i \in DOMAIN s} : \A i \in DOMAIN s : x <= s[i]

MaxSeq(s) == CHOOSE x \in {s[i] : i \in DOMAIN s} : \A i \in DOMAIN s : x >= s[i]

\* sorted[k] (0-based) of the ascending sort of s, for 0 <= k < Len(s)
SortedAt(s, k) ==
    CHOOSE x \in {s[i] : i \in DOMAIN s} :
        /\ Cardinality({i \in DOMAIN s : s[i] < x}) <= k
        /\ Cardinality({i \in DOMAIN s : s[i] <= x}) > k

\* new WindowStats(maxSize).  min = -1 stands for Infinity and max = -1 for
\* -Infinity (no sample yet); mean = sum/count and stdDev from (count, sum, sumSq).
WindowStats(maxSize) ==
    [maxSize |-> maxSize, values |-> <<>>, consecutiveBreaches |-> 0,
     isWarmedUp |-> FALSE, count |-> 0, sum |-> 0, sumSq |-> 0,
     min |-> -1, max |-> -1, p95 |-> 0, p99 |-> 0]

updateStats(w) ==
    IF Len(w.values) = 0 THEN w
    ELSE [w EXCEPT !.count = Len(w.values),
                   !.sum = SumSeq(w.values),
                   !.sumSq = SumSqSeq(w.values),
                   !.min = MinSeq(w.values),
                   !.max = MaxSeq(w.values),
                   !.p95 = SortedAt(w.values, (Len(w.values) * 95) \div 100),
                   !.p99 = SortedAt(w.values, (Len(w.values) * 99) \div 100)]

\* a slip: one sample late
WarmedAfterPush_Late(w, len) == w.isWarmedUp \/ len > config.warmupSamples

WarmedAfterPush(w, len) == w.isWarmedUp \/ len >= config.warmupSamples

\* a slip: every value is taken
Rejected_Never(value) == FALSE

\* typeof value !== 'number' || isNaN(value)
Rejected(value) == ~IsNumber(value)

\* a slip: the newest sample is dropped instead of the oldest
Evict_Newest(appended, maxSize) ==
    IF Len(appended) > maxSize THEN SubSeq(appended, 1, Len(appended) - 1) ELSE appended

\* if (this.values.length > this.maxSize) this.values.shift()
Evict(appended, maxSize) ==
    IF Len(appended) > maxSize THEN Tail(appended) ELSE appended

push(w, value) ==
    IF Rejected(value) THEN w
    ELSE LET kept == Evict(Append(w.values, value), w.maxSize)
         IN updateStats([w EXCEPT !.values = kept,
                                  !.isWarmedUp = WarmedAfterPush(w, Len(kept))])

\* The moving average of a window, which push maintains and the evaluation never
\* reads: ema = num / EmaDen^exp, exp = -1 for null (no sample yet).
EmaDen == 5

NoEma == [num |-> 0, exp |-> -1]

RECURSIVE Pow(_, _)
Pow(b, e) == IF e = 0 THEN 1 ELSE b * Pow(b, e - 1)

\* ema = value at the first sample, then emaAlpha * value + (1 - emaAlpha) * ema
\* with emaAlpha = 1 / EmaDen
emaAfter(ema, value) ==
    IF ema.exp = -1 THEN [num |-> value, exp |-> 0]
    ELSE [num |-> value * Pow(EmaDen, ema.exp) + (EmaDen - 1) * ema.num,
          exp |-> ema.exp + 1]

\* a window together with its moving average
EmaWindow(maxSize) == [stats |-> WindowStats(maxSize), ema |-> NoEma]

\* push on a window together with its moving average
pushEma(w, value) ==
    IF Rejected(value) THEN w
    ELSE [stats |-> push(w.stats, value), ema |-> emaAfter(w.ema, value)]

\* Numbers are IEEE doubles.  MaxFinite stands for Number.MAX_VALUE, scaled to
\* the integers of the model; a result beyond it is Infinity, and NaN is a
\* value of its own.  Rounding below MaxFinite is not modelled.
MaxFinite == 1000000
PosInf == MaxFinite + 1
NegInf == 0 - PosInf
NaN == MaxFinite + 2

Finite(a) == a >= 0 - MaxFinite /\ a <= MaxFinite

\* the double nearest to an exact result x
Round(x) == IF x > MaxFinite THEN PosInf ELSE IF x < 0 - MaxFinite THEN NegInf ELSE x

\* a + b
FAdd(a, b) ==
    IF a = NaN \/ b = NaN THEN NaN
    ELSE IF Finite(a) /\ Finite(b) THEN Round(a + b)
    ELSE IF Finite(a) THEN b
    ELSE IF Finite(b) THEN a
    ELSE IF a = b THEN a ELSE NaN

\* a * b
FMul(a, b) ==
    IF a = NaN \/ b = NaN THEN NaN
    ELSE IF Finite(a) /\ Finite(b) THEN Round(a * b)
    ELSE IF a = 0 \/ b = 0 THEN NaN
    ELSE IF (a > 0) = (b > 0) THEN PosInf ELSE NegInf

\* a - b
FSub(a, b) == FAdd(a, IF b = NaN THEN NaN ELSE 0 - b)

\* s.reduce((a, b) => a + b, 0)
RECURSIVE FSum(_, _)
FSum(s, acc) == IF s = <<>> THEN acc ELSE FSum(Tail(s), FAdd(acc, Head(s)))

\* a slip: the regression runs over the whole window
SlopeSpan_All(n) == n

\* Math.min(10, n)
SlopeSpan(n) == IF n < SlopeSamples THEN n ELSE SlopeSamples

\* slope || 0: NaN and 0 give 0
OrZeroSlope(num, den) ==
    IF num = NaN THEN [num |-> 0, den |-> 1] ELSE [num |-> num, den |-> den]

\* getSlope as the quotient num/den: den > 0 is exact, num is a double (PosInf
\* and NegInf make the quotient Infinity and -Infinity); 0/1 when fewer than 3
\* samples
getSlope(w) ==
    IF Len(w.values) < 3 THEN [num |-> 0, den |-> 1]
    ELSE LET n == Len(w.values)
             m == SlopeSpan(n)
             y == SubSeq(w.values, n - m + 1, n)
             sumX == SumSeq([i \in 1..m |-> i - 1])
             sumY == FSum(y, 0)
             sumXY == FSum([i \in 1..m |-> FMul(i - 1, y[i])], 0)
             sumX2 == SumSeq([i \in 1..m |-> (i - 1) * (i - 1)])
         IN OrZeroSlope(FSub(FMul(m, sumXY), FMul(sumX, sumY)),
                        m * sumX2 - sumX * sumX)

--------------------------------------------------------------------------
(* detectMetricAnomaly *)

\* currentValue > window.mean + (sigmaX2 / 2) * window.stdDev
Exceeds(currentValue, w, sigmaX2) ==
    LET lhs == w.count * currentValue - w.sum
        d == w.count * w.sumSq - w.sum * w.sum
    IN /\ IsNumber(currentValue)
       /\ lhs > 0
       /\ 4 * lhs * lhs > sigmaX2 * sigmaX2 * d

\* a slip: the trend is looked at only once the counter has reached minConsecutive
TrendExceeds_Gated(w) ==
    /\ w.consecutiveBreaches >= MinConsecutive
    /\ LET s == getSlope(w)
       IN IF w.sum = 0 THEN s.num > 0
          ELSE 100 * s.num * w.count > TrendThreshold * w.sum * s.den

\* (slope / window.mean) * 100 > config.trendThreshold; a zero mean divides to
\* Infinity (slope > 0), -Infinity or NaN
TrendExceeds(w) ==
    LET s == getSlope(w)
    IN IF w.sum = 0 THEN s.num > 0
       ELSE 100 * s.num * w.count > TrendThreshold * w.sum * s.den

NoDetails == [kind |-> "none", metric |-> "", value |-> 0, joined |-> <<>>]

\* a slip: no hysteresis, the first breach counts
BreachReached_Once(counter) == counter >= 1

BreachReached(counter) == counter >= MinConsecutive

\* a slip: the counter is not reset by a sample that does not breach
CounterAfter_NoReset(w, breach) ==
    IF breach THEN w.consecutiveBreaches + 1 ELSE w.consecutiveBreaches

CounterAfter(w, breach) == IF breach THEN w.consecutiveBreaches + 1 ELSE 0

\* a slip: the warning return is tried before the critical one
BreachLevel_WarningFirst(isCriticalBreach, isWarningBreach) ==
    IF isWarningBreach THEN "warning" ELSE IF isCriticalBreach THEN "critical" ELSE "none"

\* the return the hysteresis block takes: if (isCriticalBreach) comes first
BreachLevel(isCriticalBreach, isWarningBreach) ==
    IF isCriticalBreach THEN "critical" ELSE IF isWarningBreach THEN "warning" ELSE "none"

\* the verdict and the window after the call (consecutiveBreaches is updated)
detectMetricAnomaly(currentValue, w, metricName) ==
    IF ~w.isWarmedUp
    THEN [status |-> "learning", reason |-> "collecting_baseline_" \o metricName,
          details |-> NoDetails, breach |-> FALSE, level |-> "none", window |-> w]
    ELSE LET isCriticalBreach == Exceeds(currentValue, w, CriticalSigmaX2)
             isWarningBreach == Exceeds(currentValue, w, WarningSigmaX2)
             breach == isCriticalBreach \/ isWarningBreach
             level == BreachLevel(isCriticalBreach, isWarningBreach)
             w2 == [w EXCEPT !.consecutiveBreaches = CounterAfter(w, breach)]
         IN IF BreachReached(w2.consecutiveBreaches) /\ level = "critical"
            THEN [status |-> "critical", reason |-> metricName \o "_extremely_high",
                  details |-> [kind |-> "over_critical", metric |-> metricName,
                               value |-> currentValue, joined |-> <<>>],
                  breach |-> breach, level |-> level, window |-> w2]
            ELSE IF BreachReached(w2.consecutiveBreaches) /\ level = "warning"
            THEN [status |-> "warning", reason |-> metricName \o "_elevated",
                  details |-> [kind |-> "over_warning", metric |-> metricName,
                               value |-> currentValue, joined |-> <<>>],
                  breach |-> breach, level |-> level, window |-> w2]
            ELSE IF TrendExceeds(w2)
            THEN [status |-> "warning", reason |-> metricName \o "_rising_trend",
                  details |-> [kind |-> "trend", metric |-> metricName,
                               value |-> 0, joined |-> <<>>],
                  breach |-> breach, level |-> level, window |-> w2]
            ELSE [status |-> "normal", reason |-> "within_baseline",
                  details |-> NoDetails, breach |-> breach, level |-> level, window |-> w2]

--------------------------------------------------------------------------
(* evaluateService *)

MetricNames == <<"latency", "error_rate", "request_count">>

\* a slip: only the errorRate window is looked at
AnyWarming_ErrorRateOnly(windows) == ~windows.errorRate.isWarmedUp

AnyWarming(windows) ==
    \/ ~windows.latency.isWarmedUp
    \/ ~windows.errorRate.isWarmedUp
    \/ ~windows.requestCount.isWarmedUp

MinOf3(a, b, c) == IF a <= b /\ a <= c THEN a ELSE IF b <= c THEN b ELSE c

\* a slip: the anomalies are collected in the reverse order
SelectStatus_Reversed(anomalies, status) ==
    LET s == SelectSeq(anomalies, LAMBDA a : a.status = status)
    IN [i \in 1..Len(s) |-> s[Len(s) + 1 - i]]

SelectStatus(anomalies, status) ==
    SelectSeq(anomalies, LAMBDA a : a.status = status)

\* a slip: the ceiling includes 50
OverCeiling_Inclusive(errorRate) == IsNumber(errorRate) /\ errorRate >= ErrorRateCeiling

OverCeiling(errorRate) == IsNumber(errorRate) /\ errorRate > ErrorRateCeiling

\* the decision logic on the three per-metric verdicts (first match wins)
Decide(errorRate, anomalies) ==
    LET criticalAnomalies == SelectStatus(anomalies, "critical")
        warningAnomalies == SelectStatus(anomalies, "warning")
    IN IF OverCeiling(errorRate)
       THEN [status |-> "unhealthy", reason |-> "high_error_rate",
             details |-> [kind |-> "error_rate", metric |-> "", value |-> errorRate,
                          joined |-> <<>>]]
       ELSE IF Len(criticalAnomalies) > 0
       THEN [status |-> "unhealthy", reason |-> criticalAnomalies[1].reason,
             details |-> criticalAnomalies[1].details]
       ELSE IF Len(warningAnomalies) >= 2
       THEN [status |-> "degraded", reason |-> "multiple_metrics_elevated",
             details |-> [kind |-> "joined", metric |-> "", value |-> 0,
                          joined |-> [i \in 1..Len(warningAnomalies) |->
                                         warningAnomalies[i].reason]]]
       ELSE IF Len(warningAnomalies) = 1
       THEN [status |-> "degraded", reason |-> warningAnomalies[1].reason,
             details |-> warningAnomalies[1].details]
       ELSE [status |-> "healthy", reason |-> "all_metrics_normal",
             details |-> [kind |-> "normal", metric |-> "", value |-> 0, joined |-> <<>>]]

NoAnomaly ==
    [status |-> "none", reason |-> "", details |-> NoDetails, breach |-> FALSE,
     level |-> "none"]

Verdict(a) == [status |-> a.status, reason |-> a.reason, details |-> a.details,
               breach |-> a.breach, level |-> a.level]

\* evaluateService(metrics, windows): the verdict, the three per-metric verdicts
\* (NoAnomaly when detectMetricAnomaly was not called) and the windows after it
evaluateService(metrics, windows) ==
    LET pushed == [windows EXCEPT
                     !.latency = push(windows.latency, metrics.latency),
                     !.errorRate = push(windows.errorRate, metrics.errorRate),
                     !.requestCount = push(windows.requestCount, metrics.requestCount)]
    IN IF AnyWarming(pushed)
       THEN [verdict |-> [status |-> "learning", reason |-> "collecting_baseline",
                          details |-> [kind |-> "progress", metric |-> "",
                                       value |-> MinOf3(Len(pushed.latency.values),
                                                        Len(pushed.errorRate.values),
                                                        Len(pushed.requestCount.values)),
                                       joined |-> <<>>]],
             anomalies |-> <<NoAnomaly, NoAnomaly, NoAnomaly>>,
             windows |-> pushed]
       ELSE LET latencyAnomaly ==
                    detectMetricAnomaly(metrics.latency, pushed.latency, MetricNames[1])
                errorAnomaly ==
                    detectMetricAnomaly(metrics.errorRate, pushed.errorRate, MetricNames[2])
                requestAnomaly ==
                    detectMetricAnomaly(metrics.requestCount, pushed.requestCount,
                                        MetricNames[3])
                anomalies == <<Verdict(latencyAnomaly), Verdict(errorAnomaly),
                               Verdict(requestAnomaly)>>
            IN [verdict |-> Decide(metrics.errorRate, anomalies),
                anomalies |-> anomalies,
                windows |-> [pushed EXCEPT !.latency = latencyAnomaly.window,
                                           !.errorRate = errorAnomaly.window,
                                           !.requestCount = requestAnomaly.window]]

--------------------------------------------------------------------------
(* NotificationService *)

StartTime == 1000       \* Date.now() when the server starts (far more than 15 min after 0)

\* a slip: a recovery is announced too
NotifiableStatuses_WithHealthy == {"warning", "critical", "unhealthy", "degraded", "healthy"}

NotifiableStatuses == {"warning", "critical", "unhealthy", "degraded"}

BypassStatuses == {"critical", "unhealthy"}

\* a slip: the seconds since the last notification against the limit in minutes
RateLimited_Minutes(lastTimes, serviceName) ==
    now - lastTimes[serviceName] < RateLimitSeconds \div 60

\* minutesSinceLastNotification < rateLimitMinutes, with lastTime = 0 when never sent
RateLimited(lastTimes, serviceName) == now - lastTimes[serviceName] < RateLimitSeconds

shouldNotify(lastTimes, serviceName, status) ==
    IF status = "info" THEN TRUE
    ELSE IF status \notin NotifiableStatuses THEN FALSE
    ELSE IF status \in BypassStatuses THEN TRUE
    ELSE ~RateLimited(lastTimes, serviceName)

\* a slip: the send is taken as delivered whatever the channels returned
AnySucceeded_Always(ok) == TRUE

\* results.some(r => r.status === 'fulfilled' && r.value === true)
AnySucceeded(ok) == ok # {}

\* if (anySucceeded) this.lastNotificationTime[service.name] = Date.now(): one
\* time per service, whatever the status of the notification
Stamped(status, ok) == AnySucceeded(ok)

\* the channels in the order sendAlert lists them
ChannelOrder == <<"telegram", "email", "discord">>

\* a slip: the channels are awaited one after the other and the first that does not
\* return true ends the send
Attempted_UntilFailure(ok) ==
    {ChannelOrder[i] : i \in {j \in DOMAIN ChannelOrder :
        /\ ChannelOrder[j] \in enabled
        /\ \A k \in 1..(j - 1) : ChannelOrder[k] \in enabled => ChannelOrder[k] \in ok}}

\* Promise.allSettled([sendTelegram, sendEmail, sendDiscord]): every channel
\* function is started and awaited; a disabled one returns false at once, an enabled
\* one posts and turns an error into false
Attempted(ok) == enabled

\* sendAlert on one notifier instance; ok is the set of channels whose send returns
\* true (a disabled channel returns false, a failing one is caught and returns false).
\* Gives the instance's lastNotificationTime after the call and what the call did.
sendAlert(lastTimes, serviceName, status, reason, ok) ==
    IF ~shouldNotify(lastTimes, serviceName, status)
    THEN [lastTimes |-> lastTimes,
          call |-> [serviceName |-> serviceName, status |-> status, reason |-> reason,
                    attempted |-> {}, succeeded |-> {}]]
    ELSE [lastTimes |-> IF Stamped(status, ok)
                        THEN [lastTimes EXCEPT ![serviceName] = now]
                        ELSE lastTimes,
          call |-> [serviceName |-> serviceName, status |-> status, reason |-> reason,
                    attempted |-> Attempted(ok), succeeded |-> ok]]

\* the notifications of a handler call that reached a channel
Deliveries(instance, calls) ==
    {[instance |-> instance, serviceName |-> calls[i].serviceName,
      status |-> calls[i].status, reason |-> calls[i].reason, at |-> now] :
        i \in {j \in DOMAIN calls : calls[j].succeeded # {}}}

--------------------------------------------------------------------------
(* The stores *)

\* a Service document (models/Service.js); of currentMetrics only totalRequests is
\* read back by the code
NewService ==
    [exists |-> TRUE, status |-> "unknown", lastHeartbeat |-> NoTime, totalRequests |-> 0,
     criticalSince |-> NoTime, criticalNotificationSent |-> FALSE, isAtRisk |-> FALSE,
     autoHealingInProgress |-> FALSE]

NoService == [NewService EXCEPT !.exists = FALSE]

\* eventSchema.eventType enum: Event.create with another type fails validation
EventTypeEnum == {"status_change", "alert", "auto_healing", "baseline_update", "trend_detected"}

EventAccepted(eventType) == eventType \in EventTypeEnum

Event(serviceName, eventType, severity, oldStatus, newStatus, reason) ==
    [serviceName |-> serviceName, eventType |-> eventType, severity |-> severity,
     oldStatus |-> oldStatus, newStatus |-> newStatus, reason |-> reason]

NoWindows == [created |-> FALSE]

NewWindows ==
    [created |-> TRUE, latency |-> WindowStats(WindowSize),
     errorRate |-> WindowStats(WindowSize), requestCount |-> WindowStats(WindowSize),
     startTime |-> now]

NoSample == [latency |-> Undefined, errorRate |-> Undefined, requestCount |-> Undefined,
             totalRequests |-> Undefined]

NoVerdict == [status |-> "none", reason |-> "", details |-> NoDetails]

\* what a handler call did: its verdict and its sendAlert calls, the time of the call,
\* the stored document, the deliveries and the notifier's times before it, the
\* stored document after it and, in a sweep, the time the sweep read its documents
\* and the services the turn left for the next turns
NoResult ==
    [op |-> "none", serviceName |-> "", http |-> 0, verdict |-> NoVerdict,
     anomalies |-> <<NoAnomaly, NoAnomaly, NoAnomaly>>, calls |-> <<>>,
     oldStatus |-> "", newStatus |-> "", sample |-> NoSample,
     at |-> NoTime, before |-> NoService, after |-> NoService, prior |-> {},
     lastTimes |-> <<>>, readAt |-> NoTime, rest |-> <<>>]

NoHistory ==
    [accepted |-> <<0, 0, 0>>, breaches |-> <<<<>>, <<>>, <<>>>>,
     levels |-> <<<<>>, <<>>, <<>>>>, resets |-> 0]

\* the history after one evaluateService call: which windows accepted their value,
\* and the breach flags and levels of the latest MinConsecutive detectMetricAnomaly
\* calls; resets counts the times the route has created the windows of the service
HistoryAfter(h, metrics, anomalies) ==
    LET pushedValues == <<metrics.latency, metrics.errorRate, metrics.requestCount>>
    IN [accepted |-> [m \in 1..3 |-> IF IsNumber(pushedValues[m])
                                     THEN h.accepted[m] + 1 ELSE h.accepted[m]],
        breaches |-> [m \in 1..3 |->
            IF anomalies[m].status = "none" THEN h.breaches[m]
            ELSE LET all == Append(h.breaches[m], anomalies[m].breach)
                 IN IF Len(all) > MinConsecutive THEN Tail(all) ELSE all],
        levels |-> [m \in 1..3 |->
            IF anomalies[m].status = "none" THEN h.levels[m]
            ELSE LET all == Append(h.levels[m], anomalies[m].level)
                 IN IF Len(all) > MinConsecutive THEN Tail(all) ELSE all],
        resets |-> h.resets]

--------------------------------------------------------------------------
(* POST /ingest/metrics *)

OrZero(v) == IF v = Undefined THEN 0 ELSE v

statusMap(status) ==
    CASE status = "healthy" -> "healthy"
      [] status = "degraded" -> "warning"
      [] status = "unhealthy" -> "critical"
      [] status = "learning" -> "analyzing"
      [] OTHER -> "unknown"

IngestSeverity(status) ==
    CASE status = "critical" -> "critical"
      [] status = "warning" -> "warning"
      [] OTHER -> "info"

\* a slip: a lower request total is not taken as a restart
IsRestart_Never(sample, service) == FALSE

\* totalRequests < (service.currentMetrics?.totalRequests || 0); undefined < n is false
IsRestart(sample, service) ==
    sample.totalRequests # Undefined /\ sample.totalRequests < service.totalRequests

\* document.save(): the modified paths of the document go to the stored one
Save(stored, doc, paths) ==
    [f \in DOMAIN stored |-> IF f \in paths THEN doc[f] ELSE stored[f]]

\* the paths on which a document differs from the one it was before
Modified(was, doc) == {f \in DOMAIN doc : doc[f] # was[f]}

\* req.body without serviceName
NoName == ""

\* a slip: only the name is required
Invalid_NameOnly(serviceName, sample) == serviceName = NoName

\* !serviceName || latency === undefined
Invalid(serviceName, sample) == serviceName = NoName \/ sample.latency = Undefined

\* "Send notification for critical/warning status (but NOT during learning)"
IngestNotifies(newStatus, verdict) ==
    newStatus \in {"warning", "critical"} /\ verdict.status # "learning"

\* the outcomes of the channels for one sendAlert call: the channels that accept it
ChannelOutcomes == SUBSET enabled

\* The handler, from the request to the response, on the document `read` that
\* Service.findOne returned to it.  okStart and okAlert are the channels that
\* accept the 'Service Started' and the status notification.  With `hung` a
\* channel call of the status notification never completes: sendAlert awaits
\* Promise.allSettled and the handler goes no further.
IngestHandler(serviceName, sample, read, hung) ==
    IF Invalid(serviceName, sample)
    THEN /\ ~hung
         /\ res' = [NoResult EXCEPT !.op = "ingest", !.serviceName = serviceName,
                                    !.http = 400, !.sample = sample, !.at = now,
                                    !.prior = delivered,
                                    !.lastTimes = lastNotificationTime["ingest"]]
         /\ UNCHANGED <<db, serviceWindows, events, lastNotificationTime, delivered,
                        history>>
    ELSE
    LET service == IF read.exists THEN read ELSE NewService
        \* the stored document: the one Service.create made when none was found
        base == IF db[serviceName].exists THEN db[serviceName] ELSE NewService
        registered == [db EXCEPT ![serviceName] = base]
        failed(http) == [NoResult EXCEPT !.op = "ingest", !.serviceName = serviceName,
                                         !.http = http, !.sample = sample, !.at = now,
                                         !.before = db[serviceName], !.after = base,
                                         !.prior = delivered,
                                         !.lastTimes = lastNotificationTime["ingest"]]
    IN IF service.lastHeartbeat = NoTime /\ ~EventAccepted("service_started")
       THEN /\ ~hung
            /\ db' = registered
            /\ res' = failed(500)
            /\ UNCHANGED <<serviceWindows, events, lastNotificationTime, delivered,
                           history>>
       ELSE
       \E isRestart \in {IsRestart(sample, service)} :
       \E fresh \in {~serviceWindows[serviceName].created \/ isRestart} :
       \E currentMetrics \in {[latency |-> OrZero(sample.latency),
                               errorRate |-> OrZero(sample.errorRate),
                               requestCount |-> OrZero(sample.requestCount),
                               totalRequests |-> OrZero(sample.totalRequests)]} :
       \E detected \in {evaluateService(currentMetrics,
                                        IF fresh THEN NewWindows
                                        ELSE serviceWindows[serviceName])} :
       \E newStatus \in {statusMap(detected.verdict.status)} :
       \E notifies \in {IngestNotifies(newStatus, detected.verdict)} :
       \E okStart \in IF fresh THEN ChannelOutcomes ELSE {{}} :
       \E okAlert \in IF notifies THEN ChannelOutcomes ELSE {{}} :
       \E start \in {sendAlert(lastNotificationTime["ingest"], serviceName, "info",
                               "Service Started", okStart)} :
       \E times1 \in {IF fresh THEN start.lastTimes ELSE lastNotificationTime["ingest"]} :
       \E alert \in {sendAlert(times1, serviceName, newStatus, detected.verdict.reason,
                               okAlert)} :
       LET oldStatus == service.status
           events1 == IF service.lastHeartbeat = NoTime
                      THEN events \cup {Event(serviceName, "service_started", "info",
                                              "", "", "")}
                      ELSE events
           events2 == IF oldStatus # newStatus
                      THEN events1 \cup {Event(serviceName, "status_change",
                                               IngestSeverity(newStatus), oldStatus,
                                               newStatus, detected.verdict.reason)}
                      ELSE events1
           \* the windows are created anew: one more reset of the service
           before == IF fresh
                     THEN [NoHistory EXCEPT !.resets = history[serviceName].resets + 1]
                     ELSE history[serviceName]
           calls1 == IF fresh THEN <<start.call>> ELSE <<>>
           times2 == IF notifies /\ ~hung THEN alert.lastTimes ELSE times1
           calls2 == IF notifies THEN Append(calls1, alert.call) ELSE calls1
           saved == [service EXCEPT !.status = newStatus, !.lastHeartbeat = now,
                                    !.totalRequests = currentMetrics.totalRequests]
           \* service.save(): status when it changed, lastHeartbeat, currentMetrics
           stored == IF hung THEN base
                     ELSE Save(base, saved, Modified(service, saved)
                                               \cup {"lastHeartbeat", "totalRequests"})
       IN \* a call hangs only if it is made, and a hanging channel accepts nothing
          /\ hung => (alert.call.attempted # {} /\ okAlert # enabled)
          /\ serviceWindows' = [serviceWindows EXCEPT ![serviceName] = detected.windows]
          /\ history' = [history EXCEPT ![serviceName] =
                             HistoryAfter(before, currentMetrics, detected.anomalies)]
          /\ events' = events2
          /\ lastNotificationTime' = [lastNotificationTime EXCEPT !["ingest"] = times2]
          /\ delivered' = delivered \cup Deliveries("ingest", calls2)
          /\ db' = [db EXCEPT ![serviceName] = stored]
          \* Metric.create: a latency that is not a number fails the cast, after the save
          /\ res' = [op |-> "ingest", serviceName |-> serviceName,
                     http |-> IF hung THEN 0
                              ELSE IF IsNumber(sample.latency) THEN 201 ELSE 500,
                     verdict |-> detected.verdict, anomalies |-> detected.anomalies,
                     calls |-> calls2, oldStatus |-> oldStatus, newStatus |-> newStatus,
                     sample |-> sample, at |-> now, before |-> db[serviceName],
                     after |-> stored, prior |-> delivered,
                     lastTimes |-> lastNotificationTime["ingest"], readAt |-> NoTime,
                     rest |-> <<>>]

\* the handler when nothing runs between its awaits and every channel call completes
IngestMetrics(serviceName, sample) ==
    IngestHandler(serviceName, sample,
                  IF serviceName = NoName THEN NoService ELSE db[serviceName], FALSE)

\* a request of the route suspended at Service.findOne: the document it is given;
\* once it waits in sendAlert, the status it notifies and the channels that have
\* accepted the notification so far
InFlight(serviceName, sample) ==
    [op |-> "ingest", serviceName |-> serviceName, sample |-> sample,
     service |-> db[serviceName], awaiting |-> "findOne", body |-> 0,
     status |-> "", reason |-> "", accepted |-> {}]

\* The request i goes on after the sendAlert it waited in: the channels still
\* open answer (ok: the channels that accepted in the end), sendAlert records the
\* time when one accepted, and the route saves the document it read with the
\* status it computed and answers.
Respond(i) ==
    /\ i \in DOMAIN inFlight
    /\ inFlight[i].op = "ingest"
    /\ inFlight[i].awaiting = "sendAlert"
    /\ \E call \in {inFlight[i]} :
       \E name \in {inFlight[i].serviceName} :
       \E ok \in {c \in SUBSET enabled : call.accepted \subseteq c} :
       LET service == IF call.service.exists THEN call.service ELSE NewService
           saved == [service EXCEPT !.status = call.status, !.lastHeartbeat = now,
                                    !.totalRequests = OrZero(call.sample.totalRequests)]
           stored == Save(db[name], saved, Modified(service, saved)
                                              \cup {"lastHeartbeat", "totalRequests"})
           \* the notification reaches its first channel now
           late == IF call.accepted = {} /\ ok # {}
                   THEN <<[serviceName |-> name, status |-> call.status,
                           reason |-> call.reason, attempted |-> enabled,
                           succeeded |-> ok]>>
                   ELSE <<>>
       IN /\ lastNotificationTime' =
                 IF Stamped(call.status, ok)
                 THEN [lastNotificationTime EXCEPT !["ingest"][name] = now]
                 ELSE lastNotificationTime
          /\ delivered' = delivered \cup Deliveries("ingest", late)
          /\ db' = [db EXCEPT ![name] = stored]
          /\ res' = [NoResult EXCEPT
                       !.op = "ingest_answered", !.serviceName = name,
                       !.http = IF IsNumber(call.sample.latency) THEN 201 ELSE 500,
                       !.calls = late, !.oldStatus = service.status,
                       !.newStatus = call.status, !.sample = call.sample, !.at = now,
                       !.before = db[name], !.after = stored, !.prior = delivered,
                       !.lastTimes = lastNotificationTime["ingest"]]
    /\ inFlight' = [k \in 1..(Len(inFlight) - 1) |->
                       IF k < i THEN inFlight[k] ELSE inFlight[k + 1]]
    /\ UNCHANGED <<config, serviceWindows, events, alerts, enabled, now, isEvaluating,
                   sweep, history, timers>>

--------------------------------------------------------------------------
(* The periodic sweep: jobs/intelligentEvaluator.js *)

\* Service.find(): the documents, in a fixed order
ServiceOrder == <<"auth-service", "booking-service", "storage-service">>

\* what a body holds of a service: the document as it was read, and when
Found ==
    SelectSeq([i \in 1..Len(ServiceOrder) |->
                  [name |-> ServiceOrder[i], doc |-> db[ServiceOrder[i]], readAt |-> now]],
              LAMBDA d : d.doc.exists)

\* a slip: no heartbeat counts as no time since the heartbeat
Silent_SeenOnly(doc, at) ==
    doc.lastHeartbeat # NoTime /\ at - doc.lastHeartbeat > HeartbeatTimeout

\* timeSinceHeartbeat > 60000, Infinity when there is no heartbeat
Silent(doc, at) == doc.lastHeartbeat = NoTime \/ at - doc.lastHeartbeat > HeartbeatTimeout

evaluateServiceHealth(doc) ==
    IF Silent(doc, now)
    THEN [status |-> "critical", reason |-> "no_heartbeat",
          currentTotalRequests |-> doc.totalRequests]
    ELSE [status |-> IF doc.status = "unknown" /\ now - doc.lastHeartbeat < HeartbeatTimeout
                     THEN "healthy" ELSE doc.status,
          reason |-> "status_from_metrics_endpoint",
          currentTotalRequests |-> doc.totalRequests]

\* alertSchema.alertType enum: Alert.create with another type fails validation
AlertTypeEnum ==
    {"high_latency", "high_error_rate", "no_heartbeat", "trend_warning", "cascading_failure"}

\* Alert.create: a new document; id tells it from the documents created before
Alert(serviceName, alertType, severity) ==
    [id |-> Cardinality(alerts) + 1, serviceName |-> serviceName,
     alertType |-> alertType, severity |-> severity, resolved |-> FALSE]

\* a slip: the unresolved record is not looked for
Unresolved_Never(serviceName, alertType) == FALSE

Unresolved(serviceName, alertType) ==
    \E a \in alerts : a.serviceName = serviceName /\ a.alertType = alertType /\ ~a.resolved

\* Alert.updateMany({ serviceId, resolvedAt: null }, { resolvedAt: new Date() })
ResolveService(all, serviceName) ==
    {IF a.serviceName = serviceName THEN [a EXCEPT !.resolved = TRUE] ELSE a : a \in all}

\* Alert.updateMany({ alertType, resolvedAt: null }, { resolvedAt: new Date() })
ResolveType(all, alertType) ==
    {IF a.alertType = alertType THEN [a EXCEPT !.resolved = TRUE] ELSE a : a \in all}

SweepSeverity(status) ==
    CASE status = "critical" -> "critical"
      [] status = "warning" -> "warning"
      [] OTHER -> "info"

\* a slip: a transition into critical is notified at once too
ChangeNotifies_Critical(oldStatus, newStatus) ==
    newStatus \in {"warning", "critical"} /\ oldStatus # "unknown"

\* "Send mobile notification for warning status (immediate)"
ChangeNotifies(oldStatus, newStatus) == newStatus = "warning" /\ oldStatus # "unknown"

\* handleStatusChange(service, oldStatus, newStatus, reason): the document, the
\* stores and the sweep notifier's times after it, and its sendAlert calls.  An
\* Alert.create that fails validation throws after the event was created; the
\* catch ends the function there.
handleStatusChange(doc, stored, name, oldStatus, newStatus, reason, times, ok) ==
    LET same == [doc |-> doc, stored |-> stored, events |-> events, alerts |-> alerts,
                 times |-> times, calls |-> <<>>]
        event == Event(name, "status_change", SweepSeverity(newStatus), oldStatus,
                       newStatus, reason)
        alerting == newStatus \in {"warning", "critical"}
        rejected == alerting /\ ~Unresolved(name, reason) /\ reason \notin AlertTypeEnum
        alerts1 == IF alerting
                   THEN IF Unresolved(name, reason) THEN alerts
                        ELSE alerts \cup {Alert(name, reason, newStatus)}
                   ELSE IF newStatus = "healthy"
                   THEN ResolveService(alerts, name)
                   ELSE alerts
        notifies == ChangeNotifies(oldStatus, newStatus)
        sent == sendAlert(times, name, newStatus, reason, ok)
        doc1 == IF newStatus = "critical"
                THEN IF doc.criticalSince = NoTime
                     THEN [doc EXCEPT !.criticalSince = now,
                                      !.criticalNotificationSent = FALSE]
                     ELSE doc
                ELSE [doc EXCEPT !.criticalSince = NoTime,
                                 !.criticalNotificationSent = FALSE]
    IN IF oldStatus = newStatus THEN same
       ELSE IF rejected THEN [same EXCEPT !.events = events \cup {event}]
       ELSE [doc |-> doc1,
             stored |-> Save(stored, doc1, Modified(doc, doc1)),
             events |-> events \cup {event},
             alerts |-> alerts1,
             times |-> IF notifies THEN sent.lastTimes ELSE times,
             calls |-> IF notifies THEN <<sent.call>> ELSE <<>>]

\* POST /services/actions/restart (routes/services.js), behind verifyToken.  The
\* request carries a Bearer token or none; jwt.verify accepts the token of a signed-in
\* administrator only.
Tokens == {"none", "forged", "admin"}

verifyToken(token) == token = "admin"

RestartDelay == 10

\* The route on the stored document of the service: the reply, the document, the
\* events created and the timers set.
Restart(stored, name, token) ==
    IF ~verifyToken(token)
    THEN [http |-> 401, stored |-> stored, events |-> {}, timers |-> {}]
    ELSE IF ~stored.exists
    THEN [http |-> 404, stored |-> stored, events |-> {}, timers |-> {}]
    ELSE [http |-> 200,
          stored |-> [stored EXCEPT !.autoHealingInProgress = TRUE],
          events |-> {Event(name, "auto_healing", "warning", "", "", "restart")},
          timers |-> {[serviceName |-> name, due |-> now + RestartDelay]}]

NoReply == [http |-> 0, events |-> {}, timers |-> {}]

\* a request of a dashboard user, or of anyone else
RestartRequest(name, token) ==
    /\ \E reply \in {Restart(db[name], name, token)} :
          /\ db' = [db EXCEPT ![name] = reply.stored]
          /\ events' = events \cup reply.events
          /\ timers' = timers \cup reply.timers
          /\ res' = [NoResult EXCEPT !.op = "restart", !.serviceName = name,
                                     !.http = reply.http, !.at = now,
                                     !.before = db[name], !.after = reply.stored]
    /\ UNCHANGED <<config, serviceWindows, alerts, lastNotificationTime, enabled, now,
                   isEvaluating, sweep, delivered, history, inFlight>>

\* the setTimeout callback of the route, once its 10 s are over
RestartTimer(timer) ==
    /\ timer \in timers
    /\ now >= timer.due
    /\ \E svc \in {db[timer.serviceName]} :
       \E saved \in {[svc EXCEPT !.autoHealingInProgress = FALSE,
                                 !.criticalSince = NoTime]} :
          /\ db' = [db EXCEPT ![timer.serviceName] = saved]
          /\ events' = events \cup {Event(timer.serviceName, "auto_healing", "info", "",
                                          "", "restart_complete")}
          /\ res' = [NoResult EXCEPT !.op = "restart_complete",
                                     !.serviceName = timer.serviceName, !.at = now,
                                     !.before = svc, !.after = saved]
    /\ timers' = timers \ {timer}
    /\ UNCHANGED <<config, serviceWindows, alerts, lastNotificationTime, enabled, now,
                   isEvaluating, sweep, delivered, history, inFlight>>

\* a slip: the notification is sent without marking the document
Confirmed_Unmarked(doc) == doc

\* service.criticalNotificationSent = true, saved before the notification is sent
Confirmed(doc) == [doc EXCEPT !.criticalNotificationSent = TRUE]

\* "Check for delayed critical notifications (30s debounce)"
DelayedCritical(doc) ==
    /\ doc.status = "critical"
    /\ doc.criticalSince # NoTime
    /\ ~doc.criticalNotificationSent
    /\ now - doc.criticalSince > CriticalDelay

\* checkAutoHealing: the restart request is posted, without an Authorization header
AutoHealing(doc) ==
    /\ doc.status = "critical"
    /\ doc.criticalSince # NoTime
    /\ now - doc.criticalSince > AutoHealAfter
    /\ ~doc.autoHealingInProgress

\* a slip: the lock is not looked at
Locked_Never == FALSE

\* "if (isEvaluating) return"
Locked == isEvaluating

\* One call of runIntelligentEvaluation, up to its first await: it returns when the
\* lock is held, else takes the lock and reads the services.
SweepCall ==
    /\ sweep' = [sweep EXCEPT !.calls = @ + 1,
                              !.bodies = IF Locked THEN @ ELSE Append(@, Found)]
    /\ isEvaluating' = IF Locked THEN isEvaluating ELSE TRUE
    /\ res' = [NoResult EXCEPT !.op = IF Locked THEN "sweep_skipped" ELSE "sweep_started",
                               !.at = now]
    /\ UNCHANGED <<config, serviceWindows, db, events, alerts, lastNotificationTime,
                   enabled, now, delivered, history, timers, inFlight>>

\* the body b of the sweep is suspended at a sendAlert that does not return
Waits(b) ==
    \E i \in DOMAIN inFlight : inFlight[i].op = "sweep" /\ inFlight[i].body = b

\* One turn of the loop of the body b: the next document it has read.  With
\* `hung` a channel call of the delayed notification never completes: the turn
\* stops at that sendAlert, and the loop with it.
SweepLoop(b, hung) ==
    /\ b \in DOMAIN sweep.bodies
    /\ sweep.bodies[b] # <<>>
    /\ ~Waits(b)
    /\ \E name \in {Head(sweep.bodies[b]).name} :
       \E doc0 \in {Head(sweep.bodies[b]).doc} :
       \E evaluation \in {evaluateServiceHealth(doc0)} :
       \E doc1 \in {[doc0 EXCEPT !.status = evaluation.status,
                                 !.totalRequests = evaluation.currentTotalRequests]} :
       \* service.save(): status when it changed, currentMetrics (uptime moves)
       \E stored1 \in {Save(db[name], doc1,
                            Modified(doc0, doc1) \cup {"totalRequests"})} :
       \E okChange \in IF doc0.status # evaluation.status /\ evaluation.status = "warning"
                       THEN ChannelOutcomes ELSE {{}} :
       \E change \in {handleStatusChange(doc1, stored1, name, doc0.status,
                                         evaluation.status, evaluation.reason,
                                         lastNotificationTime["sweep"], okChange)} :
       \E delayed \in {DelayedCritical(change.doc)} :
       \E okDelayed \in IF delayed THEN ChannelOutcomes ELSE {{}} :
       \E stopped \in {sendAlert(change.times, name, "critical",
                                 IF evaluation.reason = "no_heartbeat"
                                 THEN "Service Stopped" ELSE evaluation.reason,
                                 okDelayed)} :
       LET doc2 == IF delayed THEN Confirmed(change.doc) ELSE change.doc
           stored2 == Save(change.stored, doc2, Modified(change.doc, doc2))
           calls == IF delayed THEN Append(change.calls, stopped.call) ELSE change.calls
           times == IF delayed /\ ~hung THEN stopped.lastTimes ELSE change.times
           heals == ~hung /\ AutoHealing(doc2)
           \* axios.post('http://localhost:3000/services/actions/restart', {...})
           reply == IF heals THEN Restart(stored2, name, "none") ELSE NoReply
           stored3 == IF heals THEN reply.stored ELSE stored2
       IN \* a call hangs only if it is made, and a hanging channel accepts nothing
          /\ hung => (delayed /\ enabled # {} /\ okDelayed # enabled)
          /\ db' = [db EXCEPT ![name] = stored3]
          /\ events' = change.events \cup reply.events
          /\ timers' = timers \cup reply.timers
          /\ alerts' = change.alerts
          /\ lastNotificationTime' = [lastNotificationTime EXCEPT !["sweep"] = times]
          /\ delivered' = delivered \cup Deliveries("sweep", calls)
          /\ sweep' = IF hung THEN sweep ELSE [sweep EXCEPT !.bodies[b] = Tail(@)]
          /\ inFlight' =
                 IF hung
                 THEN Append(inFlight, [op |-> "sweep", serviceName |-> name,
                                        sample |-> NoSample, service |-> doc2,
                                        awaiting |-> "sendAlert", body |-> b,
                                        status |-> "critical",
                                        reason |-> stopped.call.reason,
                                        accepted |-> okDelayed])
                 ELSE inFlight
          /\ res' = [NoResult EXCEPT
                       !.op = IF hung THEN "sweep_waiting" ELSE "sweep",
                       !.serviceName = name,
                       !.verdict = [status |-> evaluation.status,
                                    reason |-> evaluation.reason,
                                    details |-> [NoDetails EXCEPT !.kind =
                                        IF heals THEN "restart_posted"
                                        ELSE "none"]],
                       !.calls = calls, !.oldStatus = doc0.status,
                       !.newStatus = evaluation.status, !.at = now,
                       !.http = reply.http,
                       !.before = db[name], !.after = stored3, !.prior = delivered,
                       !.lastTimes = lastNotificationTime["sweep"],
                       !.readAt = Head(sweep.bodies[b]).readAt]
    /\ UNCHANGED <<config, serviceWindows, enabled, now, isEvaluating, history>>

\* the turn when every channel call completes
SweepService(b) == SweepLoop(b, FALSE)

\* the names of the services a body has still to process
Names(body) == [i \in DOMAIN body |-> body[i].name]

\* The turn of the loop in which `await service.save()` rejects (the write fails,
\* or the document does not pass validation).  The loop is inside the one try
\* block of runIntelligentEvaluation: the error leaves the loop, the catch
\* logs it and the finally block releases the lock.  Nothing is stored;
\* detectCascadingFailures is not reached.  (Errors inside updateBaseline,
\* evaluateServiceHealth, handleStatusChange, checkAutoHealing and the channel
\* functions are caught there and do not leave the turn.)
SweepAbort(b) ==
    /\ b \in DOMAIN sweep.bodies
    /\ sweep.bodies[b] # <<>>
    /\ ~Waits(b)
    /\ \E name \in {Head(sweep.bodies[b]).name} :
       \E doc0 \in {Head(sweep.bodies[b]).doc} :
       \E evaluation \in {evaluateServiceHealth(doc0)} :
          res' = [NoResult EXCEPT
                    !.op = "sweep_failed", !.serviceName = name,
                    !.verdict = [status |-> evaluation.status,
                                 reason |-> evaluation.reason, details |-> NoDetails],
                    !.oldStatus = doc0.status, !.newStatus = evaluation.status,
                    !.at = now, !.before = db[name], !.after = db[name],
                    !.prior = delivered, !.lastTimes = lastNotificationTime["sweep"],
                    !.readAt = Head(sweep.bodies[b]).readAt,
                    !.rest = Names(Tail(sweep.bodies[b]))]
    /\ isEvaluating' = FALSE
    /\ sweep' = [sweep EXCEPT !.bodies =
                     [i \in 1..(Len(@) - 1) |-> IF i < b THEN @[i] ELSE @[i + 1]]]
    /\ UNCHANGED <<config, serviceWindows, db, events, alerts, lastNotificationTime,
                   enabled, now, delivered, history, timers, inFlight>>

\* detectCascadingFailures
CascadeEvent(name) == Event(name, "alert", "warning", "", "", "cascading_failure")

\* a slip: an alert is created whether or not one is open
AtRisk_Again == {s \in Dependents : db[s].exists}

\* the dependents without an unresolved cascading_failure alert
AtRisk == {s \in Dependents : db[s].exists /\ ~Unresolved(s, "cascading_failure")}

\* a slip: every service is marked
Marked_All == {s \in Services : db[s].exists}

\* Service.updateMany({ name: { $in: [...] } }, { isAtRisk: true })
Marked == {s \in Dependents : db[s].exists}

\* The end of the body b: detectCascadingFailures, then the finally block.
SweepFinish(b) ==
    /\ b \in DOMAIN sweep.bodies
    /\ sweep.bodies[b] = <<>>
    /\ IF db["auth-service"].exists /\ db["auth-service"].status = "critical"
       THEN /\ db' = [s \in Services |->
                         IF s \in Marked THEN [db[s] EXCEPT !.isAtRisk = TRUE] ELSE db[s]]
            /\ alerts' = alerts \cup {Alert(s, "cascading_failure", "warning") : s \in AtRisk}
            /\ events' = events \cup {CascadeEvent(s) : s \in AtRisk}
       ELSE /\ db' = [s \in Services |->
                         IF db[s].exists THEN [db[s] EXCEPT !.isAtRisk = FALSE] ELSE db[s]]
            /\ alerts' = ResolveType(alerts, "cascading_failure")
            /\ events' = events
    /\ isEvaluating' = FALSE
    /\ sweep' = [sweep EXCEPT !.bodies =
                     [i \in 1..(Len(@) - 1) |-> IF i < b THEN @[i] ELSE @[i + 1]]]
    /\ res' = [NoResult EXCEPT !.op = "sweep_finished", !.at = now]
    /\ UNCHANGED <<config, serviceWindows, lastNotificationTime, enabled, now, delivered,
                   history, timers, inFlight>>

\* Date.now() moves on by d seconds
Tick(d) ==
    /\ now' = now + d
    /\ traffic' = [traffic EXCEPT !.ticks = @ + 1]
    /\ UNCHANGED <<config, serviceWindows, db, events, alerts, lastNotificationTime,
                   enabled, isEvaluating, sweep, delivered, res, history, timers, inFlight>>

--------------------------------------------------------------------------
(* Initial states.  The Service collection outlives the server: at startup    *)
(* server.js resets every status to 'unknown', the other fields are what an   *)
(* earlier run left (here: a heartbeat long ago, or none).                    *)

PastHeartbeat == 0

Persisted == [NewService EXCEPT !.lastHeartbeat = PastHeartbeat]

InitStores ==
    /\ serviceWindows = [s \in Services |-> NoWindows]
    /\ events = {}
    /\ alerts = {}
    /\ lastNotificationTime = [i \in Instances |-> [s \in Services |-> 0]]
    /\ now = StartTime
    /\ isEvaluating = FALSE
    /\ sweep = [bodies |-> <<>>, calls |-> 0]
    /\ delivered = {}
    /\ res = NoResult
    /\ history = [s \in Services |-> NoHistory]
    /\ timers = {}
    /\ inFlight = <<>>

--------------------------------------------------------------------------
(* The evaluation scenario: one service reports; after a quiet run of normal  *)
(* samples the generator sends up to MaxBurst samples of any kind.            *)

Sample(latency, errorRate, requestCount) ==
    [latency |-> latency, errorRate |-> errorRate, requestCount |-> requestCount,
     totalRequests |-> 1]

Normal == Sample(0, 0, 0)

Low == 1
High == 10

EvalSamples ==
    {Normal,
     Sample(0, Low, 0), Sample(0, High, 0),
     Sample(Low, Low, Low), Sample(High, High, High),
     Sample(0, ErrorRateCeiling, 0), Sample(0, ErrorRateCeiling + 1, 0),
     Sample(NotNum, ErrorRateCeiling + 1, 0)}

Reporter == "auth-service"

InitEval ==
    /\ InitStores
    /\ config = [warmupSamples |-> EvalWarmup]
    /\ db \in {[s \in Services |-> IF s = Reporter THEN d ELSE NoService] :
                   d \in {NoService, Persisted}}
    /\ enabled = {"telegram"}
    /\ traffic \in {[sent |-> [s \in Services |-> 0], quiet |-> q, ticks |-> 0,
                      calls |-> 0] : q \in {0, EvalWarmup - 1}}

Sent(serviceName) ==
    traffic' = [traffic EXCEPT !.sent[serviceName] = @ + 1]

FrameIngest == UNCHANGED <<config, alerts, enabled, now, isEvaluating, sweep, timers, inFlight>>

IngestQuiet ==
    /\ traffic.sent[Reporter] < traffic.quiet
    /\ IngestMetrics(Reporter, Normal)
    /\ Sent(Reporter)
    /\ FrameIngest

IngestBurst ==
    /\ traffic.sent[Reporter] >= traffic.quiet
    /\ traffic.sent[Reporter] < traffic.quiet + MaxBurst
    /\ \E sample \in EvalSamples : IngestMetrics(Reporter, sample)
    /\ Sent(Reporter)
    /\ FrameIngest

NextEval == IngestQuiet \/ IngestBurst

SpecEval == InitEval /\ [][NextEval]_vars

--------------------------------------------------------------------------
(* The system scenario: services report, the clock moves and the cron job     *)
(* calls the sweep, in any order.                                             *)

MaxSamples == 1         \* samples sent in a run
MaxSweeps == 2          \* calls of runIntelligentEvaluation in a run
MaxTicks == 1           \* steps of the clock in a run

SystemSamples == {Normal, Sample(0, ErrorRateCeiling + 1, 0)}

Reporters == {"auth-service"}

\* the services an earlier run of the server has left in the collection
Known == {"auth-service", "booking-service"}

\* the steps of the clock: the critical delay, and a second more than the heartbeat
\* timeout
SystemSteps == {CriticalDelay, HeartbeatTimeout + 1}

Init ==
    /\ InitStores
    /\ config = [warmupSamples |-> SystemWarmup]
    /\ db \in {[s \in Services |-> IF s \in Known THEN d ELSE NoService] :
                   d \in {NoService, Persisted}}
    /\ enabled = {"telegram"}
    /\ traffic = [sent |-> [s \in Services |-> 0], quiet |-> 0, ticks |-> 0, calls |-> 0]

TotalSent == traffic.sent["auth-service"] + traffic.sent["booking-service"]
                 + traffic.sent["storage-service"]

Ingest ==
    /\ TotalSent < MaxSamples
    /\ \E serviceName \in Reporters :
           /\ \E sample \in SystemSamples : IngestMetrics(serviceName, sample)
           /\ Sent(serviceName)
    /\ FrameIngest

Cron ==
    /\ sweep.calls < MaxSweeps
    /\ SweepCall
    /\ UNCHANGED traffic

SweepStep ==
    /\ \E b \in DOMAIN sweep.bodies : SweepService(b)
    /\ UNCHANGED traffic

SweepEnd ==
    /\ \E b \in DOMAIN sweep.bodies : SweepFinish(b)
    /\ UNCHANGED traffic

Clock ==
    /\ traffic.ticks < MaxTicks
    /\ \E d \in SystemSteps : Tick(d)

Next == Ingest \/ Cron \/ SweepStep \/ SweepEnd \/ Clock

Spec == Init /\ [][Next]_vars

--------------------------------------------------------------------------
(* The notifier scenario: sendAlert is called on a notifier, with any status, *)
(* while the clock moves.                                                     *)

MaxCalls == 2           \* sendAlert calls in a run

AlertStatuses ==
    {"info", "warning", "degraded", "critical", "unhealthy", "healthy", "analyzing",
     "unknown"}

NotifyServices == {"auth-service", "booking-service"}

\* the steps of the clock: a second, and a second less than the rate limit
NotifySteps == {1, RateLimitSeconds - 1}

InitNotify ==
    /\ InitStores
    /\ config = [warmupSamples |-> SystemWarmup]
    /\ db = [s \in Services |-> Persisted]
    /\ enabled \in {{}, {"telegram"}, {"telegram", "discord"}}
    /\ traffic = [sent |-> [s \in Services |-> 0], quiet |-> 0, ticks |-> 0, calls |-> 0]

\* notificationService.sendAlert(service, status, reason) on the notifier `instance`
CallSendAlert(instance, serviceName, status) ==
    /\ traffic.calls < MaxCalls
    /\ \E ok \in IF shouldNotify(lastNotificationTime[instance], serviceName, status)
                 THEN ChannelOutcomes ELSE {{}} :
       \E sent \in {sendAlert(lastNotificationTime[instance], serviceName, status,
                              "direct", ok)} :
          /\ lastNotificationTime' =
                 [lastNotificationTime EXCEPT ![instance] = sent.lastTimes]
          /\ delivered' = delivered \cup Deliveries(instance, <<sent.call>>)
          /\ res' = [NoResult EXCEPT
                       !.op = "sendAlert", !.serviceName = serviceName,
                       !.calls = <<sent.call>>, !.at = now, !.prior = delivered,
                       !.lastTimes = lastNotificationTime[instance]]
    /\ traffic' = [traffic EXCEPT !.calls = @ + 1]
    /\ UNCHANGED <<config, serviceWindows, db, events, alerts, enabled, now,
                   isEvaluating, sweep, history, timers, inFlight>>

\* the notifier the calls are made on
Notifier == "sweep"

Notify ==
    \E serviceName \in NotifyServices, status \in AlertStatuses :
        CallSendAlert(Notifier, serviceName, status)

ClockNotify ==
    /\ traffic.ticks < MaxTicks
    /\ \E d \in NotifySteps : Tick(d)

NextNotify == Notify \/ ClockNotify

SpecNotify == InitNotify /\ [][NextNotify]_vars

--------------------------------------------------------------------------
(* The operations scenario: the sweep over the auth service and its           *)
(* dependents, with the clock, samples, restart requests and their timers.    *)

MaxOpsSweeps == 3       \* calls of the sweep in a run
MaxOpsTicks == 2        \* steps of the clock in a run
MaxOpsSamples == 1      \* samples in a run
MaxRequests == 1        \* restart requests from outside in a run
RecentGap == 1          \* seconds from a recent heartbeat to the start

\* a document whose service reported just before the server started
Recent == [NewService EXCEPT !.lastHeartbeat = StartTime - RecentGap]

\* the step of the clock: a second more than the heartbeat timeout, which is more
\* than the critical delay; two of them are more than the auto-healing threshold
OpsSteps == {HeartbeatTimeout + 1}

OpsReporters == {"auth-service"}

InitOps ==
    /\ InitStores
    /\ config = [warmupSamples |-> SystemWarmup]
    /\ db = [s \in Services |-> IF s = "booking-service" THEN Recent ELSE Persisted]
    /\ enabled = {"telegram"}
    /\ traffic = [sent |-> [s \in Services |-> 0], quiet |-> 0, ticks |-> 0, calls |-> 0]

ReportOps ==
    /\ TotalSent < MaxOpsSamples
    /\ \E serviceName \in OpsReporters :
           /\ \E sample \in SystemSamples : IngestMetrics(serviceName, sample)
           /\ Sent(serviceName)
    /\ FrameIngest

CronOps ==
    /\ sweep.calls < MaxOpsSweeps
    /\ SweepCall
    /\ UNCHANGED traffic

ClockOps ==
    /\ traffic.ticks < MaxOpsTicks
    /\ \E d \in OpsSteps : Tick(d)

Request ==
    /\ traffic.calls < MaxRequests
    /\ \E token \in Tokens : RestartRequest("auth-service", token)
    /\ traffic' = [traffic EXCEPT !.calls = @ + 1]

RunTimer ==
    /\ \E timer \in timers : RestartTimer(timer)
    /\ UNCHANGED traffic

NextOps ==
    ReportOps \/ CronOps \/ SweepStep \/ SweepEnd \/ ClockOps \/ Request \/ RunTimer

SpecOps == InitOps /\ [][NextOps]_vars

--------------------------------------------------------------------------
(* The restart scenario: one service reports samples whose request total goes *)
(* up and down, under a warm-up of one sample or of more.                     *)

RestartWarmup == 2      \* the longer warmupSamples
MaxTotal == 2           \* the largest totalRequests reported
MaxReports == 3         \* samples in a run

RestartSamples ==
    {[latency |-> Low, errorRate |-> 0, requestCount |-> Low, totalRequests |-> n] :
        n \in (0..MaxTotal) \cup {Undefined}}
    \cup {[latency |-> Low, errorRate |-> ErrorRateCeiling + 1, requestCount |-> Low,
           totalRequests |-> 0]}
    \cup {[latency |-> Undefined, errorRate |-> 0, requestCount |-> Low,
           totalRequests |-> 0]}

InitRestart ==
    /\ InitStores
    /\ config \in {[warmupSamples |-> n] : n \in {SystemWarmup, RestartWarmup}}
    /\ db = [s \in Services |-> IF s = Reporter THEN Persisted ELSE NoService]
    /\ enabled = {"telegram"}
    /\ traffic = [sent |-> [s \in Services |-> 0], quiet |-> 0, ticks |-> 0, calls |-> 0]

Report ==
    /\ traffic.sent[Reporter] < MaxReports
    /\ \E sample \in RestartSamples : IngestMetrics(Reporter, sample)
    /\ Sent(Reporter)
    /\ FrameIngest

\* a request whose body names no service
ReportNameless ==
    /\ traffic.sent[Reporter] < MaxReports
    /\ \E sample \in RestartSamples : IngestMetrics(NoName, sample)
    /\ Sent(Reporter)
    /\ FrameIngest

ClockRestart ==
    /\ traffic.ticks < MaxTicks
    /\ \E d \in NotifySteps : Tick(d)

NextRestart == Report \/ ReportNameless \/ ClockRestart

SpecRestart == InitRestart /\ [][NextRestart]_vars

--------------------------------------------------------------------------
(* The window scenario: values, numbers or not, are pushed on one window.     *)

PushCapacity == 3       \* maxSize of the window
PushWarmup == 2         \* warmupSamples
MaxPushes == 5          \* push calls in a run

PushValues == {0, Low, High, NotNum}

InitWindow ==
    /\ config = [warmupSamples |-> PushWarmup]
    /\ serviceWindows =
           [s \in Services |->
               IF s = Reporter
               THEN [created |-> TRUE, latency |-> EmaWindow(PushCapacity)]
               ELSE NoWindows]
    /\ db = [s \in Services |-> NoService]
    /\ events = {}
    /\ alerts = {}
    /\ lastNotificationTime = [i \in Instances |-> [s \in Services |-> 0]]
    /\ enabled = {}
    /\ now = StartTime
    /\ isEvaluating = FALSE
    /\ sweep = [bodies |-> <<>>, calls |-> 0]
    /\ delivered = {}
    /\ res = NoResult
    /\ history = [s \in Services |-> NoHistory]
    /\ timers = {}
    /\ inFlight = <<>>
    /\ traffic = [sent |-> [s \in Services |-> 0], quiet |-> 0, ticks |-> 0,
                  calls |-> 0, pushed |-> <<>>]

\* window.push(value); the window before the call is kept in res.before
PushValue(value) ==
    /\ Len(traffic.pushed) < MaxPushes
    /\ serviceWindows' =
           [serviceWindows EXCEPT ![Reporter].latency = pushEma(@, value)]
    /\ traffic' = [traffic EXCEPT !.pushed = Append(@, value)]
    /\ res' = [NoResult EXCEPT !.op = "push", !.serviceName = Reporter, !.at = now,
                               !.before = serviceWindows[Reporter].latency]
    /\ UNCHANGED <<config, db, events, alerts, lastNotificationTime, enabled, now,
                   isEvaluating, sweep, delivered, history, timers, inFlight>>

NextWindow == \E value \in PushValues : PushValue(value)

SpecWindow == InitWindow /\ [][NextWindow]_vars

--------------------------------------------------------------------------
(* The asynchronous scenario: the handlers as the event loop runs them.  A    *)
(* request of the route is suspended at Service.findOne, and other handlers   *)
(* run before it goes on; a channel call of a notification may never          *)
(* complete (axios.post is called without a timeout).                         *)

MaxAsyncSamples == 2    \* requests of the route
MaxWaitSamples == 1     \* requests of the route, where the channels are watched
MaxAsyncSweeps == 2     \* cron ticks
MaxAsyncTicks == 1      \* steps of the clock

AsyncService == "auth-service"

InitAsync ==
    /\ InitStores
    /\ config = [warmupSamples |-> SystemWarmup]
    /\ db = [s \in Services |-> IF s = AsyncService THEN Persisted ELSE NoService]
    /\ enabled = {"telegram"}
    /\ traffic = [sent |-> [s \in Services |-> 0], quiet |-> 0, ticks |-> 0, calls |-> 0]

\* the route up to `await Service.findOne`, for one of at most n requests
ArriveUpTo(n) ==
    /\ TotalSent < n
    /\ \E sample \in SystemSamples :
          /\ ~Invalid(AsyncService, sample)
          /\ inFlight' = Append(inFlight, InFlight(AsyncService, sample))
          /\ res' = [NoResult EXCEPT !.op = "ingest_read", !.serviceName = AsyncService,
                                     !.sample = sample, !.at = now,
                                     !.before = db[AsyncService],
                                     !.after = db[AsyncService]]
    /\ Sent(AsyncService)
    /\ UNCHANGED <<config, serviceWindows, db, events, alerts, lastNotificationTime,
                   enabled, now, isEvaluating, sweep, delivered, history, timers>>

\* the route from there on, for the request i, to its response or to a
\* notification that does not return
Resume ==
    /\ \E i \in DOMAIN inFlight :
          /\ inFlight[i].op = "ingest"
          /\ inFlight[i].awaiting = "findOne"
          /\ \E hung \in BOOLEAN :
                /\ IngestHandler(inFlight[i].serviceName, inFlight[i].sample,
                                 inFlight[i].service, hung)
                /\ inFlight' =
                       IF hung
                       THEN [inFlight EXCEPT
                               ![i].awaiting = "sendAlert",
                               ![i].status = res'.newStatus,
                               ![i].reason = res'.calls[Len(res'.calls)].reason,
                               ![i].accepted = res'.calls[Len(res'.calls)].succeeded]
                       ELSE [k \in 1..(Len(inFlight) - 1) |->
                                IF k < i THEN inFlight[k] ELSE inFlight[k + 1]]
    /\ UNCHANGED <<config, alerts, enabled, now, isEvaluating, sweep, timers, traffic>>

CronAsync ==
    /\ sweep.calls < MaxAsyncSweeps
    /\ SweepCall
    /\ UNCHANGED traffic

\* the turn of the sweep whose delayed notification does not return
SweepWait ==
    /\ \E b \in DOMAIN sweep.bodies : SweepLoop(b, TRUE)
    /\ UNCHANGED traffic

ClockAsync ==
    /\ traffic.ticks < MaxAsyncTicks
    /\ \E d \in OpsSteps : Tick(d)

Arrive == ArriveUpTo(MaxAsyncSamples)

NextAsync ==
    Arrive \/ Resume \/ CronAsync \/ SweepStep \/ SweepWait \/ SweepEnd \/ ClockAsync

SpecAsync == InitAsync /\ [][NextAsync]_vars

ArriveOnce == ArriveUpTo(MaxWaitSamples)

NextWait ==
    ArriveOnce \/ Resume \/ CronAsync \/ SweepStep \/ SweepWait \/ SweepEnd
        \/ ClockAsync

\* a request whose findOne has resolved: Resume is enabled
Ready ==
    \E i \in DOMAIN inFlight :
        inFlight[i].op = "ingest" /\ inFlight[i].awaiting = "findOne"

\* the event loop runs every continuation that is ready: the next turn of a
\* sweep, the end of a sweep, and a request whose findOne has resolved (weak
\* fairness of Resume, with its enabling condition written out)
FairWait ==
    /\ InitAsync
    /\ [][NextWait]_vars
    /\ WF_vars(SweepStep)
    /\ WF_vars(SweepEnd)
    /\ (<>[]Ready => []<><<Resume>>_vars)

--------------------------------------------------------------------------
(* The overlap scenario: requests of one service arrive while earlier ones    *)
(* wait for the channels.  After two quiet samples the service reports a      *)
(* raised error rate.                                                         *)

MaxQuiet == 2           \* quiet samples, handled one after the other
MaxSpikes == 2          \* samples with a raised error rate
MaxOverlapTicks == 1    \* steps of the clock

InitOverlap ==
    /\ InitStores
    /\ config = [warmupSamples |-> SystemWarmup]
    /\ db = [s \in Services |-> IF s = AsyncService THEN Persisted ELSE NoService]
    /\ enabled \in {{"telegram"}, {"telegram", "discord"}}
    /\ traffic = [sent |-> [s \in Services |-> 0], quiet |-> MaxQuiet, ticks |-> 0,
                  calls |-> 0]

Quiet ==
    /\ traffic.sent[AsyncService] < traffic.quiet
    /\ IngestMetrics(AsyncService, Normal)
    /\ Sent(AsyncService)
    /\ FrameIngest

\* the route up to `await Service.findOne`
ArriveSpike ==
    /\ traffic.sent[AsyncService] >= traffic.quiet
    /\ traffic.sent[AsyncService] < traffic.quiet + MaxSpikes
    /\ inFlight' = Append(inFlight, InFlight(AsyncService, Sample(0, High, 0)))
    /\ res' = [NoResult EXCEPT !.op = "ingest_read", !.serviceName = AsyncService,
                               !.sample = Sample(0, High, 0), !.at = now,
                               !.before = db[AsyncService], !.after = db[AsyncService]]
    /\ Sent(AsyncService)
    /\ UNCHANGED <<config, serviceWindows, db, events, alerts, lastNotificationTime,
                   enabled, now, isEvaluating, sweep, delivered, history, timers>>

Answer ==
    /\ \E i \in DOMAIN inFlight : Respond(i)
    /\ UNCHANGED traffic

ClockOverlap ==
    /\ traffic.ticks < MaxOverlapTicks
    /\ \E d \in NotifySteps : Tick(d)

NextOverlap == Quiet \/ ArriveSpike \/ Resume \/ Answer \/ ClockOverlap

SpecOverlap == InitOverlap /\ [][NextOverlap]_vars

--------------------------------------------------------------------------
(* The restart-race scenario: a running service has reported MaxTotal         *)
(* requests; it restarts and reports 0 requests, then 1, in two requests that *)
(* may overlap, while the sweep runs.                                         *)

MaxRaceSweeps == 1      \* cron ticks

RaceSample(n) ==
    [latency |-> Low, errorRate |-> 0, requestCount |-> Low, totalRequests |-> n]

\* the sample of the running service, handled before the restart
ReportRunning ==
    /\ traffic.sent[AsyncService] = 0
    /\ IngestMetrics(AsyncService, RaceSample(MaxTotal))
    /\ Sent(AsyncService)
    /\ FrameIngest

\* the route up to `await Service.findOne`, for the samples after the restart
ArriveRestarted ==
    /\ traffic.sent[AsyncService] \in 1..2
    /\ \E sample \in {RaceSample(traffic.sent[AsyncService] - 1)} :
          /\ inFlight' = Append(inFlight, InFlight(AsyncService, sample))
          /\ res' = [NoResult EXCEPT !.op = "ingest_read", !.serviceName = AsyncService,
                                     !.sample = sample, !.at = now,
                                     !.before = db[AsyncService],
                                     !.after = db[AsyncService]]
    /\ Sent(AsyncService)
    /\ UNCHANGED <<config, serviceWindows, db, events, alerts, lastNotificationTime,
                   enabled, now, isEvaluating, sweep, delivered, history, timers>>

CronRace ==
    /\ sweep.calls < MaxRaceSweeps
    /\ SweepCall
    /\ UNCHANGED traffic

NextRace == ReportRunning \/ ArriveRestarted \/ Resume \/ CronRace \/ SweepStep \/ SweepEnd

SpecRace == InitAsync /\ [][NextRace]_vars

--------------------------------------------------------------------------
(* The failure scenario: the sweep over the three services, where the save of *)
(* a record may fail.                                                         *)

MaxFaultSweeps == 2     \* cron ticks
MaxFaultTicks == 1      \* steps of the clock

CronFaults ==
    /\ sweep.calls < MaxFaultSweeps
    /\ SweepCall
    /\ UNCHANGED traffic

SweepFail ==
    /\ \E b \in DOMAIN sweep.bodies : SweepAbort(b)
    /\ UNCHANGED traffic

ClockFaults ==
    /\ traffic.ticks < MaxFaultTicks
    /\ \E d \in OpsSteps : Tick(d)

NextFaults == CronFaults \/ SweepStep \/ SweepFail \/ SweepEnd \/ ClockFaults

SpecFaults == InitOps /\ [][NextFaults]_vars

\* the sweep where a save may fail and a delayed notification may not return,
\* under an event loop that runs every continuation that is ready: the next turn
\* of a sweep and its end
NextStuck ==
    CronFaults \/ SweepStep \/ SweepFail \/ SweepWait \/ SweepEnd \/ ClockFaults

FairFaults ==
    /\ InitOps
    /\ [][NextStuck]_vars
    /\ WF_vars(SweepStep)
    /\ WF_vars(SweepEnd)

--------------------------------------------------------------------------
(* The slope scenario: getSlope is called on a window that holds a sequence   *)
(* of samples: an arithmetic sequence behind older samples, or three samples  *)
(* at the ends of the range of the doubles.                                   *)

MaxSlopeLen == 12       \* the longest window
MaxDiff == 2            \* the largest common difference, up or down
SlopeBase == 30         \* the first value of a falling sequence
Huge == 300000          \* 3 * Huge is finite, 6 * Huge is not

Arithmetic(a, d, n) == [i \in 1..n |-> a + d * (i - 1)]

OlderSamples == {<<>>, <<High>>, <<High, 0>>}

SlopeInputs ==
    {older \o Arithmetic(a, d, n) :
        older \in OlderSamples, a \in {0, SlopeBase}, d \in (0 - MaxDiff)..MaxDiff,
        n \in 0..MaxSlopeLen}
    \cup [1..3 -> {0, Huge, PosInf}]

\* getSlope reads this.values only: the window is its values
InitSlope ==
    /\ InitStores
    /\ config = [warmupSamples |-> SystemWarmup]
    /\ db = [s \in Services |-> NoService]
    /\ enabled = {}
    /\ \E values \in SlopeInputs :
          /\ Len(values) <= MaxSlopeLen
          /\ \A i \in DOMAIN values : IsNumber(values[i])
          /\ traffic = [sent |-> [s \in Services |-> 0], quiet |-> 0, ticks |-> 0,
                        calls |-> 0, window |-> [values |-> values]]

\* window.getSlope()
TakeSlope ==
    /\ traffic.calls = 0
    /\ traffic' = [traffic EXCEPT !.calls = 1]
    /\ res' = [NoResult EXCEPT !.op = "getSlope", !.at = now,
                               !.before = traffic.window,
                               !.after = getSlope(traffic.window)]
    /\ UNCHANGED <<config, serviceWindows, db, events, alerts, lastNotificationTime,
                   enabled, now, isEvaluating, sweep, delivered, history, timers, inFlight>>

NextSlope == TakeSlope

SpecSlope == InitSlope /\ [][NextSlope]_vars

--------------------------------------------------------------------------
(* The status-change scenario: handleStatusChange is called on the record of   *)
(* a service, saved with a new status of any kind, while the clock moves.      *)

MaxChanges == 3         \* handleStatusChange calls in a run
MaxChangeTicks == 1     \* steps of the clock in a run

\* serviceSchema.status enum
StatusEnum == {"healthy", "warning", "critical", "analyzing", "unknown"}

\* the reasons evaluateServiceHealth gives
ChangeReasons == {"no_heartbeat", "status_from_metrics_endpoint"}

ChangedService == "auth-service"

\* service.status = newStatus; await service.save(); await handleStatusChange(
\* service, oldStatus, newStatus, reason) with the sweep's notifier
CallChange(name, newStatus, reason) ==
    /\ traffic.calls < MaxChanges
    /\ \E oldStatus \in {db[name].status} :
       \E doc \in {[db[name] EXCEPT !.status = newStatus]} :
       \E ok \in IF oldStatus # newStatus THEN ChannelOutcomes ELSE {{}} :
       \E change \in {handleStatusChange(doc, doc, name, oldStatus, newStatus, reason,
                                         lastNotificationTime["sweep"], ok)} :
          /\ db' = [db EXCEPT ![name] = change.stored]
          /\ events' = change.events
          /\ alerts' = change.alerts
          /\ lastNotificationTime' =
                 [lastNotificationTime EXCEPT !["sweep"] = change.times]
          /\ delivered' = delivered \cup Deliveries("sweep", change.calls)
          /\ res' = [NoResult EXCEPT
                       !.op = "handleStatusChange", !.serviceName = name,
                       !.verdict = [status |-> newStatus, reason |-> reason,
                                    details |-> NoDetails],
                       !.calls = change.calls, !.oldStatus = oldStatus,
                       !.newStatus = newStatus, !.at = now,
                       !.before = db[name], !.after = change.stored,
                       !.prior = delivered,
                       !.lastTimes = lastNotificationTime["sweep"]]
    /\ traffic' = [traffic EXCEPT !.calls = @ + 1]
    /\ UNCHANGED <<config, serviceWindows, enabled, now, isEvaluating, sweep, history,
                   timers, inFlight>>

Change ==
    \E newStatus \in StatusEnum, reason \in ChangeReasons :
        CallChange(ChangedService, newStatus, reason)

ClockChange ==
    /\ traffic.ticks < MaxChangeTicks
    /\ \E d \in NotifySteps : Tick(d)

NextChange == Change \/ ClockChange

SpecChange == InitOps /\ [][NextChange]_vars

--------------------------------------------------------------------------
(* Properties of the evaluation engine                                        *)

\* the last handler call was an ingestion that reached evaluateService
Evaluated == res.op = "ingest" /\ res.verdict.status # "none"

WindowOf(serviceName, m) ==
    CASE m = 1 -> serviceWindows[serviceName].latency
      [] m = 2 -> serviceWindows[serviceName].errorRate
      [] m = 3 -> serviceWindows[serviceName].requestCount

ColdWindows(serviceName) == {m \in 1..3 : ~WindowOf(serviceName, m).isWarmedUp}

SentStatuses == {res.calls[i].status : i \in DOMAIN res.calls}

\* the breach flags of the latest evaluations of window m, this one last
Flags(m) == history[res.serviceName].breaches[m]

FullRun(m) == Len(Flags(m)) = MinConsecutive /\ \A i \in DOMAIN Flags(m) : Flags(m)[i]

\* this sample breached and the sample evaluated before it did not
LoneSpike(m) ==
    /\ Len(Flags(m)) >= 2
    /\ Flags(m)[Len(Flags(m))]
    /\ ~Flags(m)[Len(Flags(m)) - 1]

ThresholdReasons(m) ==
    {MetricNames[m] \o "_elevated", MetricNames[m] \o "_extremely_high"}

TrendReason(m) == MetricNames[m] \o "_rising_trend"

\* C1: while one of the three windows of a service is not warmed up, the verdict of
\* an ingested sample is learning (stored as analyzing), whatever the sample, and
\* the ingestion sends no warning or critical notification.
C1_LearningWhileWarming ==
    (Evaluated /\ ColdWindows(res.serviceName) # {}) =>
        /\ res.verdict.status = "learning"
        /\ res.newStatus = "analyzing"
        /\ SentStatuses \cap {"warning", "critical", "degraded", "unhealthy"} = {}

\* an error rate above the ceiling arrives while the latency window still lags
C1_Witness ==
    /\ Evaluated
    /\ res.sample.errorRate > ErrorRateCeiling
    /\ ColdWindows(res.serviceName) = {1}
    /\ res.verdict.status = "learning"

\* C2: a window is warmed up exactly when it has accepted at least warmupSamples
\* numeric samples since it was created: not before, from that push on, and also
\* when older samples have been evicted.
C2_WarmedIffEnoughSamples ==
    \A s \in Services :
        serviceWindows[s].created =>
            \A m \in 1..3 :
                WindowOf(s, m).isWarmedUp <=>
                    history[s].accepted[m] >= config.warmupSamples

\* a warmed-up window that has evicted samples, beside one that is not warmed up
C2_Witness ==
    \E s \in Services :
        /\ serviceWindows[s].created
        /\ WindowOf(s, 2).isWarmedUp
        /\ history[s].accepted[2] > WindowSize
        /\ Len(WindowOf(s, 2).values) = WindowSize
        /\ ~WindowOf(s, 1).isWarmedUp

\* C3: a per-metric verdict is a threshold breach (elevated / extremely_high) exactly
\* on a call where this sample and the MinConsecutive - 1 samples evaluated before it
\* all exceeded the warning threshold; a sample that does not breach leaves the
\* counter at 0 and a breach right after it leaves it at 1.
C3_Hysteresis ==
    Evaluated =>
        \A m \in 1..3 :
            res.anomalies[m].status # "none" =>
                /\ (res.anomalies[m].reason \in ThresholdReasons(m)) <=> FullRun(m)
                /\ ~Flags(m)[Len(Flags(m))] =>
                       WindowOf(res.serviceName, m).consecutiveBreaches = 0
                /\ LoneSpike(m) => WindowOf(res.serviceName, m).consecutiveBreaches = 1

\* the third breach in a row gives extremely_high on one metric while on another
\* metric the run was broken and has restarted
C3_Witness ==
    /\ Evaluated
    /\ FullRun(2)
    /\ res.anomalies[2].reason = "error_rate_extremely_high"
    /\ LoneSpike(1)

\* C4 as stated: a lone breaching sample (the sample before it did not breach, the
\* error rate is not above 50) gives no warning or critical verdict for that metric.
C4_LoneSpikeNoVerdict ==
    (Evaluated /\ res.sample.errorRate <= ErrorRateCeiling) =>
        \A m \in 1..3 :
            LoneSpike(m) => res.anomalies[m].status \notin {"warning", "critical"}

\* C4 amended: a lone breaching sample gives no threshold-breach verdict for that
\* metric; while no metric has a full run of breaches and the error rate is not
\* above 50 the service is healthy, or degraded by rising-trend warnings alone, and
\* no critical notification is sent.
C4_LoneSpikeNoThresholdVerdict ==
    (Evaluated /\ ColdWindows(res.serviceName) = {}
               /\ res.sample.errorRate <= ErrorRateCeiling) =>
        /\ \A m \in 1..3 : LoneSpike(m) => res.anomalies[m].reason \notin ThresholdReasons(m)
        /\ (\A m \in 1..3 : ~FullRun(m)) =>
              /\ res.verdict.status \in {"healthy", "degraded"}
              /\ \A m \in 1..3 : res.anomalies[m].status = "warning" =>
                                    res.anomalies[m].reason = TrendReason(m)
              /\ "critical" \notin SentStatuses

\* a lone spike of the error rate: a rising-trend warning, the service degraded and
\* a warning notification delivered
C4_Witness ==
    /\ Evaluated
    /\ res.sample.errorRate <= ErrorRateCeiling
    /\ LoneSpike(2)
    /\ res.anomalies[2].reason = TrendReason(2)
    /\ res.verdict.status = "degraded"
    /\ \E d \in delivered : d.status = "warning" /\ d.serviceName = res.serviceName

\* C5: with the three windows warmed up, an error rate above 50 gives unhealthy with
\* reason high_error_rate whatever the per-metric verdicts are; at 50 and below the
\* ceiling does not apply.
C5_ErrorRateCeiling ==
    (Evaluated /\ ColdWindows(res.serviceName) = {}) =>
        IF IsNumber(res.sample.errorRate) /\ res.sample.errorRate > ErrorRateCeiling
        THEN res.verdict.status = "unhealthy" /\ res.verdict.reason = "high_error_rate"
        ELSE res.verdict.reason # "high_error_rate"

\* 51 percent errors while no per-metric verdict is critical
C5_Witness ==
    /\ Evaluated
    /\ ColdWindows(res.serviceName) = {}
    /\ res.sample.errorRate = ErrorRateCeiling + 1
    /\ \A m \in 1..3 : res.anomalies[m].status # "critical"
    /\ res.verdict.reason = "high_error_rate"

\* C6: with the windows warmed up and the error rate not above 50 the verdict is
\* fixed by the three per-metric verdicts: the first critical one in the order
\* latency, errorRate, requestCount gives unhealthy with its reason and details;
\* else two or more warnings give degraded / multiple_metrics_elevated with the
\* warning reasons joined in that order; else one warning gives degraded with its
\* reason and details; else healthy / all_metrics_normal.
C6_DecisionOrder ==
    (Evaluated /\ ColdWindows(res.serviceName) = {}
               /\ res.sample.errorRate <= ErrorRateCeiling) =>
        LET critical == {m \in 1..3 : res.anomalies[m].status = "critical"}
            warning == {m \in 1..3 : res.anomalies[m].status = "warning"}
            first(S) == CHOOSE m \in S : \A k \in S : m <= k
            last(S) == CHOOSE m \in S : \A k \in S : m >= k
        IN IF critical # {}
           THEN /\ res.verdict.status = "unhealthy"
                /\ res.verdict.reason = res.anomalies[first(critical)].reason
                /\ res.verdict.details = res.anomalies[first(critical)].details
           ELSE IF Cardinality(warning) >= 2
           THEN /\ res.verdict.status = "degraded"
                /\ res.verdict.reason = "multiple_metrics_elevated"
                /\ Len(res.verdict.details.joined) = Cardinality(warning)
                /\ res.verdict.details.joined[1] = res.anomalies[first(warning)].reason
                /\ res.verdict.details.joined[Cardinality(warning)] =
                       res.anomalies[last(warning)].reason
           ELSE IF Cardinality(warning) = 1
           THEN /\ res.verdict.status = "degraded"
                /\ res.verdict.reason = res.anomalies[first(warning)].reason
                /\ res.verdict.details = res.anomalies[first(warning)].details
           ELSE /\ res.verdict.status = "healthy"
                /\ res.verdict.reason = "all_metrics_normal"

\* the three metrics are critical at once: the verdict carries the reason of latency
C6_Witness ==
    /\ Evaluated
    /\ res.sample.errorRate <= ErrorRateCeiling
    /\ \A m \in 1..3 : res.anomalies[m].status = "critical"
    /\ res.verdict.status = "unhealthy"
    /\ res.verdict.reason = "latency_extremely_high"

--------------------------------------------------------------------------
(* Properties of the sweep                                                    *)

\* the last handler call was a turn of the sweep's loop
Swept == res.op = "sweep"

\* the last sample of the service a sweep has evaluated was more than 60 seconds
\* old when that sweep read the services, or there was none, and none came since
Stale ==
    \/ res.before.lastHeartbeat = NoTime
    \/ res.readAt - res.before.lastHeartbeat > HeartbeatTimeout

Overlapping == sweep'.calls = sweep.calls + 1 /\ Len(sweep.bodies) > 0

C8_SingleSweep ==
    /\ [](Len(sweep.bodies) <= 1)
    /\ [][Overlapping =>
              /\ UNCHANGED <<db, alerts, events, lastNotificationTime, delivered,
                             serviceWindows, isEvaluating>>
              /\ sweep'.bodies = sweep.bodies]_vars
    /\ [][Len(sweep'.bodies) > Len(sweep.bodies) =>
              /\ sweep'.calls = sweep.calls + 1
              /\ Len(sweep.bodies) = 0]_vars

\* a call has returned at once while a body is in the middle of its loop, after it
\* evaluated a service
C8_Witness ==
    /\ res.op = "sweep_skipped"
    /\ Len(sweep.bodies) = 1
    /\ sweep.bodies[1] # <<>>
    /\ \E s \in Services : db[s].status = "critical"

--------------------------------------------------------------------------
(* Properties of the notifier                                                 *)

\* the last handler call was a direct sendAlert call
DirectCall == res.op = "sendAlert"

TheCall == res.calls[1]

\* the warnings of this service delivered by this notifier less than the rate limit
\* before the call
RecentWarnings ==
    {d \in res.prior : /\ d.instance = Notifier
                       /\ d.serviceName = res.serviceName
                       /\ d.status = "warning"
                       /\ res.at - d.at < RateLimitSeconds}

RecentDeliveries ==
    {d \in res.prior : /\ d.instance = Notifier
                       /\ d.serviceName = res.serviceName
                       /\ res.at - d.at < RateLimitSeconds}

\* C11: a sendAlert call changes the notifier's last-notification times only when
\* one channel at least reported success, and then only the entry of its service,
\* which becomes the time of the call; when every channel fails or none is enabled
\* the times stay, so a warning of a service is tried on every configured channel
\* unless a notification of that service was delivered within the rate limit.
C11_TimeOnlyOnSuccess ==
    DirectCall =>
        /\ TheCall.succeeded = {} => lastNotificationTime[Notifier] = res.lastTimes
        /\ TheCall.succeeded # {} =>
               lastNotificationTime[Notifier] =
                   [res.lastTimes EXCEPT ![res.serviceName] = res.at]
        /\ (TheCall.status = "warning" /\ RecentDeliveries = {}) =>
               TheCall.attempted = enabled

\* the second call of a run in which nothing was delivered: a warning is tried on a
\* configured channel, fails there too, and the times stay as they were
C11_Witness ==
    /\ DirectCall
    /\ traffic.calls = 2
    /\ TheCall.status = "warning"
    /\ TheCall.attempted # {}
    /\ TheCall.succeeded = {}
    /\ delivered = {}
    /\ lastNotificationTime[Notifier] = res.lastTimes

\* shouldNotify held at the time of the call
PassedGate ==
    \/ TheCall.status \in {"info", "critical", "unhealthy"}
    \/ /\ TheCall.status \in {"warning", "degraded"}
       /\ res.at - res.lastTimes[res.serviceName] >= RateLimitSeconds

\* C20: a sendAlert call that passes the gate tries every configured channel,
\* whichever of them fail; the call returns in every case, counts as delivered
\* exactly when one channel at least succeeded, and then records the delivery and
\* the time.
C20_EveryChannelTried ==
    (DirectCall /\ PassedGate) =>
        /\ TheCall.attempted = enabled
        /\ TheCall.succeeded \subseteq enabled
        /\ TheCall.succeeded = {} => delivered = res.prior
        /\ TheCall.succeeded # {} =>
               /\ \E d \in delivered : /\ d.instance = Notifier
                                        /\ d.serviceName = res.serviceName
                                        /\ d.status = TheCall.status
                                        /\ d.at = res.at
               /\ lastNotificationTime[Notifier][res.serviceName] = res.at

\* telegram fails, discord is tried all the same and succeeds: the send counts
C20_Witness ==
    /\ DirectCall
    /\ enabled = {"telegram", "discord"}
    /\ TheCall.attempted = enabled
    /\ TheCall.succeeded = {"discord"}
    /\ lastNotificationTime[Notifier][res.serviceName] = res.at
    /\ res.lastTimes[res.serviceName] # res.at

--------------------------------------------------------------------------
(* Properties of a window                                                     *)

\* the window of the window scenario
TheWindow == serviceWindows[Reporter].latency

\* the numbers among the values pushed so far, in arrival order
AcceptedValues == SelectSeq(traffic.pushed, IsNumber)

\* the last n entries of a sequence
LastOf(s, n) == SubSeq(s, Len(s) - n + 1, Len(s))

\* C18: after any sequence of pushes the window holds at most maxSize samples, and
\* they are the last min(k, maxSize) of the k numbers pushed, in arrival order.
C18_LastSamplesKept ==
    LET k == Len(AcceptedValues)
        n == IF k < PushCapacity THEN k ELSE PushCapacity
    IN /\ TheWindow.stats.maxSize = PushCapacity
       /\ Len(TheWindow.stats.values) <= PushCapacity
       /\ TheWindow.stats.values = LastOf(AcceptedValues, n)

\* more numbers than the window holds were pushed, differing ones, with a
\* non-number among them: the oldest number is gone
C18_Witness ==
    /\ Len(AcceptedValues) > PushCapacity
    /\ Len(AcceptedValues) < Len(traffic.pushed)
    /\ Len(TheWindow.stats.values) = PushCapacity
    /\ AcceptedValues[1] # AcceptedValues[Len(AcceptedValues)]
    /\ TheWindow.stats.values[1] # AcceptedValues[1]

\* C19: a push of a value that is not a number leaves the window as it was: its
\* samples, the statistics (count, sum and sum of squares for mean and stdDev, min,
\* max, p95, p99), the moving average, the warm-up flag and the breach counter.
C19_NonNumberIgnored ==
    (res.op = "push" /\ ~IsNumber(traffic.pushed[Len(traffic.pushed)])) =>
        TheWindow = res.before

\* a non-number is pushed on a warmed-up window holding differing samples
C19_Witness ==
    /\ res.op = "push"
    /\ ~IsNumber(traffic.pushed[Len(traffic.pushed)])
    /\ res.before.stats.isWarmedUp
    /\ res.before.stats.min < res.before.stats.max
    /\ res.before.ema.exp > 0
    /\ TheWindow = res.before

--------------------------------------------------------------------------
(* Properties of restart detection                                            *)

\* the last handler call took a sample whose request total is lower than the stored
Lowered ==
    /\ res.op = "ingest"
    /\ res.http = 201
    /\ res.before.exists
    /\ res.sample.totalRequests # Undefined
    /\ res.sample.totalRequests < res.before.totalRequests

\* the three windows hold this sample and nothing else
OnlyThisSample ==
    /\ serviceWindows[res.serviceName].created
    /\ serviceWindows[res.serviceName].startTime = res.at
    /\ WindowOf(res.serviceName, 1).values = <<res.sample.latency>>
    /\ WindowOf(res.serviceName, 2).values = <<res.sample.errorRate>>
    /\ WindowOf(res.serviceName, 3).values = <<res.sample.requestCount>>
    /\ \A m \in 1..3 : WindowOf(res.serviceName, m).consecutiveBreaches = 0

\* the first sendAlert of the call is the info 'Service Started', tried on every
\* configured channel
StartedSent ==
    /\ res.calls # <<>>
    /\ res.calls[1].status = "info"
    /\ res.calls[1].reason = "Service Started"
    /\ res.calls[1].attempted = enabled

\* notifications of the service delivered by the ingestion notifier less than the
\* rate limit before the call
IngestRecent ==
    {d \in res.prior : /\ d.instance = "ingest"
                       /\ d.serviceName = res.serviceName
                       /\ res.at - d.at < RateLimitSeconds}

\* C17 as stated: a sample with a lower request total is evaluated on fresh windows,
\* its verdict is learning, and the info notification goes out.
C17_RestartIsLearning ==
    Lowered =>
        /\ OnlyThisSample
        /\ res.verdict.status = "learning"
        /\ StartedSent

\* C17: a sample with a lower request total than the stored one is evaluated on
\* fresh windows, which afterwards hold this sample only; the info notification
\* 'Service Started' is tried on every configured channel whatever was delivered
\* before; with warmupSamples of 2 or more the verdict is learning and the stored
\* status analyzing, with warmupSamples = 1 the one sample warms the fresh windows
\* and the verdict is healthy, or unhealthy for an error rate above the ceiling.
C17_RestartResetsWindows ==
    Lowered =>
        /\ OnlyThisSample
        /\ StartedSent
        /\ config.warmupSamples > 1 =>
               /\ res.verdict.status = "learning"
               /\ res.newStatus = "analyzing"
               /\ \A m \in 1..3 : ~WindowOf(res.serviceName, m).isWarmedUp
        /\ config.warmupSamples = 1 =>
               /\ res.verdict.status =
                      IF res.sample.errorRate > ErrorRateCeiling
                      THEN "unhealthy" ELSE "healthy"
               /\ \A m \in 1..3 : WindowOf(res.serviceName, m).isWarmedUp

\* the windows were warmed up, a notification went out less than the rate limit
\* ago, and the restart is announced all the same
C17_Witness ==
    /\ Lowered
    /\ config.warmupSamples > 1
    /\ history[res.serviceName].accepted = <<1, 1, 1>>
    /\ traffic.sent[res.serviceName] = MaxReports
    /\ IngestRecent # {}
    /\ res.verdict.status = "learning"
    /\ res.calls[1].status = "info"
    /\ res.calls[1].succeeded # {}

--------------------------------------------------------------------------
(* Properties of the delayed confirmation, auto-healing and cascading         *)

\* the critical sendAlert calls of the last handler call that were tried
CriticalCalls ==
    {i \in DOMAIN res.calls : res.calls[i].status = "critical"}

\* C12 as stated: a critical notification is dispatched for a service, by the
\* ingestion route or by the sweep, only when the service was stored critical
\* before the call with a criticalSince more than 30 s old.
C12_CriticalOnlyAfterDelay ==
    (res.op \in {"ingest", "sweep"} /\ CriticalCalls # {}) =>
        /\ res.before.status = "critical"
        /\ res.before.criticalSince # NoTime
        /\ res.at - res.before.criticalSince > CriticalDelay

\* the last handler call was a turn of the sweep that sent the delayed confirmation
SentConfirmation == res.op = "sweep" /\ CriticalCalls # {}

\* the confirmation is sent once, for a document stored unmarked, and the document
\* is stored marked
ConfirmationMarks ==
    SentConfirmation =>
        /\ Cardinality(CriticalCalls) = 1
        /\ res.calls[Len(res.calls)].attempted = enabled
        /\ res.before.exists
        /\ ~res.before.criticalNotificationSent
        /\ res.after.criticalNotificationSent

\* the mark is taken off only when criticalSince is latched anew or the stored
\* status is no longer critical
MarkKept ==
    \A s \in Services :
        (db[s].exists /\ db[s].criticalNotificationSent
            /\ ~db'[s].criticalNotificationSent) =>
                \/ db'[s].criticalSince # db[s].criticalSince
                \/ db'[s].status # "critical"

\* C13: the sweep sends the delayed critical confirmation only for a document not
\* yet marked and stores criticalNotificationSent = true with it; the mark stays
\* until criticalSince is latched anew or the status leaves critical, so one
\* critical episode gets the confirmation at most once.
C13_ConfirmedOnce == [](ConfirmationMarks) /\ [][MarkKept]_vars

\* a later sweep finds the service still critical, long past the delay, and sends
\* nothing: the confirmation of this episode went out before
C13_Witness ==
    /\ res.op = "sweep"
    /\ res.calls = <<>>
    /\ res.before.criticalNotificationSent
    /\ res.after.status = "critical"
    /\ res.after.criticalSince # NoTime
    /\ res.at - res.after.criticalSince > CriticalDelay
    /\ \E d \in res.prior : /\ d.instance = "sweep"
                             /\ d.serviceName = res.serviceName
                             /\ d.status = "critical"
                             /\ d.at > res.after.criticalSince

\* the last handler call was a turn of the sweep that posted the restart request
PostedRestart == res.op = "sweep" /\ res.verdict.details.kind = "restart_posted"

\* C14 as stated: a turn of the sweep that issues the restart request leaves the
\* service stored with autoHealingInProgress = true.
C14_RestartMarksService == PostedRestart => res.after.autoHealingInProgress

\* the cascading_failure alerts of a service
Cascading(all, s) ==
    {a \in all : a.serviceName = s /\ a.alertType = "cascading_failure"}

Open(all, s) == {a \in Cascading(all, s) : ~a.resolved}

\* auth-service is stored critical
UpstreamCritical(store) ==
    store["auth-service"].exists /\ store["auth-service"].status = "critical"

\* a dependent never has two open cascading_failure alerts, and has one after a
\* sweep that ends with auth-service critical
OneOpen ==
    \A s \in Dependents :
        /\ Cardinality(Open(alerts, s)) <= 1
        /\ (res.op = "sweep_finished" /\ UpstreamCritical(db) /\ db[s].exists) =>
               Cardinality(Open(alerts, s)) = 1

\* an open cascading_failure alert is closed only in a step that leaves
\* auth-service not critical, and one is created only when none is open
ClosedOnRecovery ==
    \A s \in Dependents :
        /\ (\E a \in Open(alerts, s) : a \notin alerts') => ~UpstreamCritical(db')
        /\ Cascading(alerts', s) \ Cascading(alerts, s) # {} =>
               (\A a \in Open(alerts, s) : a \notin alerts') \/ Open(alerts, s) = {}

\* C15: while auth-service stays critical each dependent has exactly one
\* cascading_failure alert: never two unresolved ones, one is created only when none
\* is open, and an open one is resolved only by a step that leaves auth-service not
\* critical, so no second one is created while the upstream is still critical.
C15_OneCascadingAlert == [](OneOpen) /\ [][ClosedOnRecovery]_vars

\* a sweep ends with auth-service critical and the alerts created by an earlier
\* sweep still the only ones
C15_Witness ==
    /\ res.op = "sweep_finished"
    /\ sweep.calls = MaxOpsSweeps
    /\ UpstreamCritical(db)
    /\ \A s \in Dependents :
           /\ db[s].exists
           /\ Cardinality(Cascading(alerts, s)) = 1
           /\ Cardinality(Open(alerts, s)) = 1
    /\ \E e \in events : e.eventType = "alert"

\* C16: when a sweep has ended, isAtRisk is true for booking-service and
\* storage-service exactly when auth-service is stored critical and for no other
\* service; when auth-service is not critical no isAtRisk is true and no
\* cascading_failure alert is unresolved.
C16_AtRiskFollowsUpstream ==
    res.op = "sweep_finished" =>
        /\ \A s \in Services :
               db[s].exists => (db[s].isAtRisk <=> (UpstreamCritical(db) /\ s \in Dependents))
        /\ ~UpstreamCritical(db) =>
               \A a \in alerts : a.alertType = "cascading_failure" => a.resolved

\* a sweep ends with auth-service no longer critical: the flags set by an earlier
\* sweep are cleared and the cascading alerts resolved
C16_Witness ==
    /\ res.op = "sweep_finished"
    /\ ~UpstreamCritical(db)
    /\ \A s \in Dependents : /\ db[s].exists
                              /\ ~db[s].isAtRisk
                              /\ \E a \in Cascading(alerts, s) : a.resolved

--------------------------------------------------------------------------
(* Validation of a request: routes/metrics.js, lines 24 to 31 *)

\* the last request had no serviceName or no latency
RejectedRequest ==
    res.op = "ingest" /\ (res.serviceName = NoName \/ res.sample.latency = Undefined)

\* C21: a sample posted without serviceName, or with latency undefined, is
\* answered with an error (400) and no service record, window, event, alert,
\* metric history or notification is created or changed by the request.
C21_InvalidSampleRejected ==
    [][(res' # res /\ RejectedRequest')
          => /\ res'.http = 400
             /\ res'.calls = <<>>
             /\ UNCHANGED <<db, serviceWindows, events, alerts, delivered,
                            lastNotificationTime, history, timers, inFlight>>]_vars

\* both kinds of invalid request, to a server that holds windows of the service
C21_Witness ==
    /\ res.op = "ingest" /\ res.http = 400
    /\ res.serviceName = NoName /\ res.sample.latency = Undefined
    /\ serviceWindows[Reporter].created

--------------------------------------------------------------------------
(* getSlope: anomalyDetector.js, lines 111 to 128 *)

\* the samples the regression runs over: the last min(10, length)
Regressed ==
    LET values == res.before.values
        n == Len(values)
    IN SubSeq(values, n - (IF n < SlopeSamples THEN n ELSE SlopeSamples) + 1, n)

\* the samples rise by d from one to the next
CommonDifference(y, d) == \A i \in 2..Len(y) : y[i] - y[i - 1] = d

\* no product of getSlope leaves the range of the doubles
InRange(y) ==
    LET m == Len(y)
    IN /\ \A i \in 1..m : Finite(y[i])
       /\ m * SumSeq([i \in 1..m |-> (i - 1) * y[i]]) <= MaxFinite
       /\ SumSeq([i \in 1..m |-> i - 1]) * SumSeq(y) <= MaxFinite

\* what the claim says of the value returned, but for "never Infinity"
SlopeValues ==
    res.op = "getSlope" =>
        /\ res.after.num # NaN
        /\ Len(res.before.values) < 3 => res.after.num = 0
        /\ Len(res.before.values) >= 3 /\ CommonDifference(Regressed, 0)
              => res.after.num = 0
        /\ \A d \in (0 - MaxDiff)..MaxDiff :
              Len(res.before.values) >= 3 /\ CommonDifference(Regressed, d)
                  /\ InRange(Regressed)
              => res.after.num = d * res.after.den

\* C22 as stated: getSlope returns 0 below 3 samples, 0 for a constant
\* sequence, d for an arithmetic sequence of difference d over the last
\* min(10, length) samples, and never NaN or Infinity.
C22_SlopeNeverInfinite ==
    /\ SlopeValues
    /\ res.op = "getSlope" => Finite(res.after.num)

\* C22, amended: as stated, except that the value is Infinity or -Infinity
\* when, and only when, a product of the regression leaves the range of the
\* doubles; NaN is never returned.
C22_SlopeFiniteInRange ==
    /\ SlopeValues
    /\ res.op = "getSlope" /\ ~Finite(res.after.num)
          => Len(res.before.values) >= 3 /\ ~InRange(Regressed)
    /\ res.op = "getSlope" /\ Len(res.before.values) >= 3 /\ InRange(Regressed)
          => Finite(res.after.num)

\* a falling sequence of ten samples behind two older ones that do not fit it
C22_Witness ==
    /\ res.op = "getSlope"
    /\ Len(res.before.values) = SlopeSamples + 2
    /\ res.before.values[1] = High
    /\ CommonDifference(Regressed, 0 - MaxDiff)
    /\ ~CommonDifference(res.before.values, 0 - MaxDiff)
    /\ res.after.num = (0 - MaxDiff) * res.after.den

--------------------------------------------------------------------------
(* Properties of the critical episode and of the alert records: the sweep    *)
(* acts on a change of status only when it finds the change itself            *)

\* the last handler call was a turn of the sweep on a stored document
SweepTurn == res.op = "sweep" /\ res.after.exists

\* the turn found the service entering critical
EnteredCritical ==
    SweepTurn /\ res.oldStatus # "critical" /\ res.newStatus = "critical"

\* the unresolved alert records of a service, of one type
OpenOfType(all, s, alertType) ==
    {a \in all : a.serviceName = s /\ a.alertType = alertType /\ ~a.resolved}

\* C23 as stated: whenever the stored status of a service is not critical after
\* a turn of the sweep has processed it, criticalSince is null and
\* criticalNotificationSent is false, also when the ingestion route stored the
\* new status.
C23_ClearedOutsideCritical ==
    (SweepTurn /\ res.after.status # "critical") =>
        /\ res.after.criticalSince = NoTime
        /\ ~res.after.criticalNotificationSent

\* C24 as stated: a service that enters critical anew is confirmed in the new
\* episode; the turn of the sweep that finds it entering critical either sends
\* the confirmation or leaves the document armed for it (criticalSince set and
\* criticalNotificationSent false), whatever an earlier episode left behind.
C24_SecondEpisodeArmed ==
    EnteredCritical =>
        \/ CriticalCalls # {}
        \/ /\ res.after.criticalSince # NoTime
           /\ ~res.after.criticalNotificationSent

\* C25 as stated: whenever a turn of the sweep leaves a service stored
\* critical, its criticalSince is non-null, whether the status was forced by
\* heartbeat staleness or stored by the ingestion route, and after a restart
\* has completed.
C25_CriticalHasSince ==
    (SweepTurn /\ res.after.status = "critical") => res.after.criticalSince # NoTime

\* no service has two unresolved alert records of one type
OneOpenPerType ==
    \A s \in Services : \A alertType \in AlertTypeEnum :
        Cardinality(OpenOfType(alerts, s, alertType)) <= 1

\* a turn of the sweep that finds a service entering warning or critical while an
\* unresolved record of that service and reason exists creates no record
NoSecondRecord ==
    (res' # res /\ res'.op = "sweep"
        /\ res'.oldStatus # res'.newStatus
        /\ res'.newStatus \in {"warning", "critical"}
        /\ OpenOfType(alerts, res'.serviceName, res'.verdict.reason) # {})
    => alerts' = alerts

\* C26: at any time there is at most one unresolved (and unacknowledged: no
\* route acknowledges) alert record per service and alert type, and a turn of
\* the sweep that handles a transition into warning or critical while such a
\* record exists creates no new record.
C26_OneOpenAlertPerType == [](OneOpenPerType) /\ [][NoSecondRecord]_vars

\* a service silent for the second time: the sweep finds it entering critical
\* from healthy, and the record of the first time is still the only one
C26_Witness ==
    /\ EnteredCritical
    /\ res.oldStatus = "healthy"
    /\ res.verdict.reason = "no_heartbeat"
    /\ Cardinality({a \in alerts : a.serviceName = res.serviceName}) = 1
    /\ Cardinality(OpenOfType(alerts, res.serviceName, "no_heartbeat")) = 1

\* C27 as stated: once a turn of the sweep has read a service as healthy and
\* left it healthy, none of the alert records of the service (a cascading one
\* apart, which follows auth-service) is unresolved, whoever stored the status.
C27_ResolvedOnceHealthy ==
    (SweepTurn /\ res.oldStatus = "healthy" /\ res.newStatus = "healthy"
        /\ res.after.status = "healthy") =>
        \A a \in alerts :
            (a.serviceName = res.serviceName /\ a.alertType # "cascading_failure")
                => a.resolved

--------------------------------------------------------------------------
(* Properties of the handlers under the event loop *)

\* the requests of a service that have read its record and not yet answered
Evaluating(s) ==
    {i \in DOMAIN inFlight : inFlight[i].op = "ingest" /\ inFlight[i].serviceName = s}

\* C28 as stated: for any one service at most one ingestion-time evaluation
\* (read the record, evaluate the windows, notify, save) is in flight at a time.
C28_OneEvaluationInFlight ==
    \A s \in Services : Cardinality(Evaluating(s)) <= 1

\* C29 as stated: no evaluation waits for the notification channels: a sweep
\* that holds the guard releases it, and a request that has read its record
\* commits the status and answers, even if a channel call never completes.
C29_NothingWaitsForChannels ==
    /\ isEvaluating ~> ~isEvaluating
    /\ (inFlight # <<>>) ~> (inFlight = <<>>)

--------------------------------------------------------------------------
(* Properties of a failure inside the sweep *)

\* C30 as stated: a failure while a sweep processes one service (here: the save
\* of its record) does not prevent the remaining services from being evaluated
\* in the same sweep, nor the cascading-failure check from running: after the
\* failed turn the sweep still holds the guard, with the remaining services to
\* process.
C30_FailureIsolated ==
    res.op = "sweep_failed" =>
        /\ isEvaluating
        /\ \E b \in DOMAIN sweep.bodies : Names(sweep.bodies[b]) = res.rest

--------------------------------------------------------------------------
(* detectMetricAnomaly: the return taken once the counter has reached minConsecutive *)

\* the value of metric m the last request handed to evaluateService
ValueOf(m) ==
    CASE m = 1 -> OrZero(res.sample.latency)
      [] m = 2 -> OrZero(res.sample.errorRate)
      [] m = 3 -> OrZero(res.sample.requestCount)

\* the value exceeds mean + sigma * stdDev of its window (the sample included)
Over(m, sigmaX2) == Exceeds(ValueOf(m), WindowOf(res.serviceName, m), sigmaX2)

CounterReached(m) ==
    WindowOf(res.serviceName, m).consecutiveBreaches >= MinConsecutive

\* the levels of the breaches of the run before this call
EarlierLevels(m) ==
    LET levels == history[res.serviceName].levels[m]
    IN {levels[i] : i \in 1..(Len(levels) - 1)}

\* C31: on a call where the consecutive-breach counter has reached
\* minConsecutive, detectMetricAnomaly returns critical when the current value
\* exceeds the critical threshold, whatever the level of the earlier breaches of
\* the run, and the threshold warning when it exceeds only the warning threshold.
C31_CriticalBeforeWarning ==
    Evaluated =>
        \A m \in 1..3 :
            (res.anomalies[m].status # "none" /\ CounterReached(m)) =>
                /\ Over(m, CriticalSigmaX2) =>
                       /\ res.anomalies[m].status = "critical"
                       /\ res.anomalies[m].reason = MetricNames[m] \o "_extremely_high"
                /\ (Over(m, WarningSigmaX2) /\ ~Over(m, CriticalSigmaX2)) =>
                       /\ res.anomalies[m].status = "warning"
                       /\ res.anomalies[m].reason = MetricNames[m] \o "_elevated"

\* the third breach of a run is over the critical threshold and a breach before
\* it was over the warning threshold only
C31_Witness ==
    /\ Evaluated
    /\ \E m \in 1..3 :
          /\ CounterReached(m)
          /\ Over(m, CriticalSigmaX2)
          /\ "warning" \in EarlierLevels(m)
          /\ res.anomalies[m].status = "critical"

\* the third breach of a run is over the warning threshold only, after breaches
\* over the critical threshold
C31_WarningOnly ==
    /\ Evaluated
    /\ \E m \in 1..3 :
          /\ CounterReached(m)
          /\ Over(m, WarningSigmaX2) /\ ~Over(m, CriticalSigmaX2)
          /\ "critical" \in EarlierLevels(m)
          /\ res.anomalies[m].status = "warning"

\* 100 * slope / mean of the window of metric m exceeds trendThreshold (a zero
\* mean divides a positive slope to Infinity)
Rising(m) ==
    LET w == WindowOf(res.serviceName, m)
        slope == getSlope(w)
    IN IF w.sum = 0 THEN slope.num > 0
       ELSE 100 * slope.num * w.count > TrendThreshold * w.sum * slope.den

\* C32: for a warmed-up window the rising-trend check does not depend on the
\* consecutive-breach counter: on every call where 100*slope/mean exceeds
\* trendThreshold the per-metric verdict is at least warning, also with the
\* counter below minConsecutive.
C32_TrendNotGated ==
    Evaluated =>
        \A m \in 1..3 :
            (res.anomalies[m].status # "none" /\ Rising(m)) =>
                res.anomalies[m].status \in {"warning", "critical"}

\* a single breaching sample after a quiet run: the counter is 1 and the verdict
\* of the metric is the rising-trend warning
C32_Witness ==
    /\ Evaluated
    /\ \E m \in 1..3 :
          /\ WindowOf(res.serviceName, m).isWarmedUp
          /\ WindowOf(res.serviceName, m).consecutiveBreaches = 1
          /\ history[res.serviceName].breaches[m] = <<TRUE>>
          /\ Rising(m)
          /\ res.anomalies[m].status = "warning"
          /\ res.anomalies[m].reason = TrendReason(m)

--------------------------------------------------------------------------
(* handleStatusChange: the immediate notification *)

Handled == res.op = "handleStatusChange"

\* C33: the sweep's status-change handling calls the notifier only for a
\* transition into warning whose previous status was not unknown: never for a
\* transition into critical, healthy or analyzing, and never when the status did
\* not change.
C33_OnlyWarningNotifiedAtOnce ==
    Handled =>
        /\ (res.calls # <<>> \/ delivered # res.prior) =>
              /\ res.newStatus = "warning"
              /\ res.oldStatus \notin {"unknown", "warning"}
        /\ \A i \in DOMAIN res.calls : res.calls[i].status = "warning"
        /\ Len(res.calls) <= 1

\* a service goes from healthy to warning and the notification is delivered
C33_Witness ==
    /\ Handled
    /\ res.oldStatus = "healthy"
    /\ res.newStatus = "warning"
    /\ Len(res.calls) = 1
    /\ res.calls[1].succeeded # {}
    /\ delivered # res.prior

\* a service goes from healthy to critical: nothing is sent at once
C33_CriticalSilent ==
    /\ Handled
    /\ res.oldStatus = "healthy"
    /\ res.newStatus = "critical"
    /\ res.after.criticalSince = now
    /\ res.calls = <<>>

--------------------------------------------------------------------------
(* The cooldown and the notifications that bypass it *)

\* the warning and degraded notifications of this service delivered by this
\* notifier less than the rate limit before the call
RecentLimited ==
    {d \in RecentDeliveries : d.status \in {"warning", "degraded"}}

\* C34 as stated: the cooldown is kept per service and per cooldown class: a
\* warning of a service is tried on every configured channel unless a warning
\* (or degraded) notification of that service was delivered within the rate
\* limit, whatever info or critical notifications were delivered meanwhile.
C34_CooldownPerClass ==
    (DirectCall /\ TheCall.status \in {"warning", "degraded"} /\ RecentLimited = {}) =>
        TheCall.attempted = enabled

\* what the notifier does: a warning (or degraded) notification of a service is
\* tried on every configured channel when the notifier delivered no notification
\* of that service, of any status, within the rate limit, and on no channel when
\* it delivered one, an info or a critical one included
SuppressedByAnyDelivery ==
    (DirectCall /\ TheCall.status \in {"warning", "degraded"}) =>
        /\ RecentDeliveries = {} => TheCall.attempted = enabled
        /\ RecentDeliveries # {} =>
               /\ TheCall.attempted = {}
               /\ delivered = res.prior
               /\ lastNotificationTime[Notifier] = res.lastTimes

\* a warning a second before 15 minutes have passed since a critical notification
\* of the service was delivered, and no warning before it: it is not sent
SuppressedAfterCritical ==
    /\ DirectCall
    /\ TheCall.status = "warning"
    /\ enabled # {}
    /\ RecentLimited = {}
    /\ \E d \in RecentDeliveries :
          d.status = "critical" /\ res.at - d.at = RateLimitSeconds - 1
    /\ TheCall.attempted = {}

--------------------------------------------------------------------------
(* The cooldown under overlapping calls *)

\* the warning and degraded notifications of the service of the last handler
\* call delivered, by any notifier, less than the rate limit before it
WarningsInWindow ==
    {d \in res.prior : /\ d.serviceName = res.serviceName
                       /\ d.status \in {"warning", "degraded"}
                       /\ res.at - d.at < RateLimitSeconds}

\* the last handler call delivered a warning or degraded notification
DeliveredWarning ==
    \E i \in DOMAIN res.calls :
        res.calls[i].status \in {"warning", "degraded"} /\ res.calls[i].succeeded # {}

\* C35 as stated: under any interleaving of requests, also when sendAlert calls
\* overlap while a channel is still answering, at most one warning or degraded
\* notification is delivered per service within rateLimitMinutes: no handler
\* call delivers one while an earlier one lies within the window.
C35_OneWarningPerWindow == DeliveredWarning => WarningsInWindow = {}

--------------------------------------------------------------------------
(* Restart detection under overlapping requests and a sweep *)

\* the decreases of totalRequests the service has reported so far
Restarts == IF traffic.sent[AsyncService] >= 2 THEN 1 ELSE 0

\* every request sent has been answered
AllAnswered == traffic.sent[AsyncService] = 3 /\ inFlight = <<>>

\* C36 as stated: one restart of a service (one decrease of its reported
\* totalRequests) causes exactly one window reset, with its 'started'
\* notification, whatever the interleaving of the requests and the sweep: the
\* windows are created once for the first sample and once more for the
\* restart.
C36_OneResetPerRestart ==
    /\ history[AsyncService].resets <= 1 + Restarts
    /\ AllAnswered => history[AsyncService].resets = 2

--------------------------------------------------------------------------
(* The sweep's save over a status the ingestion path has stored meanwhile *)

\* the ingestion path stored a new status for the service after the sweep had
\* read its record: the stored status is no longer the one the sweep holds
StatusMoved == Swept /\ res.before.exists /\ res.before.status # res.oldStatus

\* C37 as stated: when the ingestion path commits a new status for a service
\* after a sweep has read its record and before the sweep saves it, the sweep's
\* save leaves that status: it does not store the unknown-to-healthy fallback, or
\* a critical forced from the heartbeat it read, over it.
C37_NewerStatusKept == StatusMoved => res.after.status = res.before.status

--------------------------------------------------------------------------
(* The guard of the sweep *)

\* a body of the sweep ends in this step: by its finally block, after the loop
\* or after a throw
BodyEnds == Len(sweep'.bodies) < Len(sweep.bodies)

\* the finally block: a body that ends releases the guard
ReleasedAtEnd == [][BodyEnds => ~isEvaluating']_vars

\* a cron tick that finds the guard released runs the body
RunsAgain ==
    [][(sweep'.calls = sweep.calls + 1 /\ ~isEvaluating)
          => (isEvaluating' /\ Len(sweep'.bodies) = Len(sweep.bodies) + 1)]_vars

\* C38 as stated: the guard is released when a sweep ends, also when a step of
\* it throws, a later scheduled sweep then runs its body again, and the guard
\* never stays set for ever.
C38_GuardNeverStuck ==
    /\ ReleasedAtEnd
    /\ RunsAgain
    /\ [](isEvaluating => <>(~isEvaluating))

\* a sweep has ended by a throw, the guard is released and a later cron tick has
\* started a body again
RunsAfterThrow ==
    /\ res.op = "sweep_started"
    /\ isEvaluating
    /\ sweep.calls = 2
    /\ Len(sweep.bodies) = 1
    /\ \E s \in Services : db[s].status = "unknown"

--------------------------------------------------------------------------
(* The first sample of a service                                              *)

\* the last request was the first one of its service: the document it read, or
\* the one it registered, had no lastHeartbeat
FirstSample ==
    /\ res.op = "ingest"
    /\ res.http # 400
    /\ res.before.lastHeartbeat = NoTime

\* C39: the first sample of a newly registered service (lastHeartbeat not set yet)
\* is ingested: the route answers 201, the windows of the service are created,
\* lastHeartbeat is the time of the request and the status is analyzing.
C39_FirstSampleIngested ==
    (FirstSample /\ IsNumber(res.sample.latency)) =>
        /\ res.http = 201
        /\ serviceWindows[res.serviceName].created
        /\ db[res.serviceName].lastHeartbeat = res.at
        /\ db[res.serviceName].status = "analyzing"

\* what the route does with a first sample: Event.create refuses the type
\* 'service_started', the route answers 500 and the service stays as registered,
\* without windows and without a lastHeartbeat, so the next sample is a first one too
FirstSampleRefused ==
    FirstSample =>
        /\ res.http = 500
        /\ ~serviceWindows[res.serviceName].created
        /\ db[res.serviceName] = NewService
        /\ events = {}

--------------------------------------------------------------------------
(* The delayed confirmation when every channel fails                          *)

\* the last handler call was a turn of the sweep that tried the delayed
\* confirmation and no channel accepted it
FailedConfirmation ==
    /\ res.op = "sweep"
    /\ CriticalCalls # {}
    /\ \A i \in CriticalCalls : /\ res.calls[i].attempted # {}
                                /\ res.calls[i].succeeded = {}

\* the document is stored marked although nothing was delivered
FailureLeavesMark ==
    FailedConfirmation =>
        /\ res.after.criticalNotificationSent
        /\ db[res.serviceName].criticalNotificationSent
        /\ res.after.criticalSince = res.before.criticalSince

\* a turn of the sweep tries the confirmation only for a service stored unmarked
AttemptsUnmarkedOnly ==
    \A s \in Services :
        (/\ res' # res
         /\ res'.op \in {"sweep", "sweep_waiting"}
         /\ res'.serviceName = s
         /\ \E i \in DOMAIN res'.calls : res'.calls[i].status = "critical")
            => ~db[s].criticalNotificationSent

\* the mark is set only by a turn of the sweep that tries the confirmation
MarkedByAttemptOnly ==
    \A s \in Services :
        (~db[s].criticalNotificationSent /\ db'[s].criticalNotificationSent) =>
            /\ res'.op \in {"sweep", "sweep_waiting"}
            /\ res'.serviceName = s
            /\ \E i \in DOMAIN res'.calls : res'.calls[i].status = "critical"

\* C40: when every channel fails at the delayed critical confirmation, the service
\* is stored with criticalNotificationSent = true all the same; the mark stays for
\* the rest of the critical episode and the sweep tries the confirmation only for
\* an unmarked service, so the episode gets no second attempt.
C40_FailedConfirmationNotRetried ==
    [](FailureLeavesMark) /\ [][MarkKept /\ AttemptsUnmarkedOnly /\ MarkedByAttemptOnly]_vars

\* a later turn of the sweep finds the service still critical, long past the delay
\* and marked, and tries nothing, although nothing was delivered in this episode:
\* the one attempt failed on every channel
C40_Witness ==
    /\ res.op = "sweep"
    /\ res.calls = <<>>
    /\ res.before.criticalNotificationSent
    /\ res.after.criticalNotificationSent
    /\ res.after.status = "critical"
    /\ res.after.criticalSince # NoTime
    /\ res.at - res.after.criticalSince > CriticalDelay
    /\ ~\E d \in delivered : /\ d.serviceName = res.serviceName
                             /\ d.status = "critical"

====
